---- MODULE Spec2Model ----
(***************************************************************************)
(* Model of script.js (community-group-google-scripts): the base-date      *)
(* parser, the 7-day window selection over the Schedule sheet and the      *)
(* recipient lookup.                                                       *)
(*                                                                         *)
(* A JavaScript Date is a record [valid, day, ms]: the local calendar day  *)
(* (days since 1970-01-01) and the milliseconds since local midnight; an   *)
(* Invalid Date (time value NaN) has valid = FALSE.  A JavaScript string   *)
(* is a sequence of one-character strings, so that trimming, the two       *)
(* regular expressions and parseInt are computed, not assumed.  JavaScript *)
(* array index i is TLA+ sequence index i + 1.                             *)
(***************************************************************************)
EXTENDS Integers, Sequences, FiniteSets, TLC

\* ------------------------------------------------------------------------
\* Bounds of the model
\* ------------------------------------------------------------------------
\* Largest number of data rows (rows after the header) of a Schedule table.
MaxRows == 3

\* Largest number of cells of column A of the Emails sheet, header included.
MaxEmailRows == 3

\* Largest number of entries of a recipient list.
MaxRecipients == 3

\* ------------------------------------------------------------------------
\* Program constants
\* ------------------------------------------------------------------------
\* setHours(12, 0, 0, 0): the hour every base date is pinned to.
MiddayHour == 12

\* maxDate.setDate(maxDate.getDate() + 7)
WindowDays == 7

\* if (year < 100) year += 2000
TwoDigitYearLimit == 100

TwoDigitYearBase == 2000

MsPerHour == 60 * 60 * 1000

MsPerDay == 24 * MsPerHour

\* ------------------------------------------------------------------------
\* The Gregorian calendar, as the Date object computes it
\* ------------------------------------------------------------------------
IsLeapYear(y) == (y % 4 = 0 /\ y % 100 # 0) \/ y % 400 = 0

DaysInMonth(y, m) ==
  IF m = 2 THEN (IF IsLeapYear(y) THEN 29 ELSE 28)
  ELSE IF m \in {4, 6, 9, 11} THEN 30 ELSE 31

\* Days from 1970-01-01 to the civil date (y, m, d), m in 1..12.  d may lie
\* outside the month: the Date object lets the day roll over.
DaysFromCivil(y, m, d) ==
  LET yy  == IF m <= 2 THEN y - 1 ELSE y
      era == yy \div 400
      yoe == yy - era * 400
      mp  == IF m > 2 THEN m - 3 ELSE m + 9
      doy == (153 * mp + 2) \div 5 + d - 1
      doe == yoe * 365 + yoe \div 4 - yoe \div 100 + doy
  IN  era * 146097 + doe - 719468

\* getFullYear / getMonth + 1 / getDate of a day number.
CivilFromDays(z) ==
  LET zz  == z + 719468
      era == zz \div 146097
      doe == zz - era * 146097
      yoe == (doe - doe \div 1460 + doe \div 36524 - doe \div 146096) \div 365
      doy == doe - (365 * yoe + yoe \div 4 - yoe \div 100)
      mp  == (5 * doy + 2) \div 153
      d   == doy - (153 * mp + 2) \div 5 + 1
      m   == IF mp < 10 THEN mp + 3 ELSE mp - 9
      y   == yoe + era * 400 + (IF m <= 2 THEN 1 ELSE 0)
  IN  [year |-> y, month |-> m, date |-> d]

\* ------------------------------------------------------------------------
\* Date objects
\* ------------------------------------------------------------------------
InvalidDate == [valid |-> FALSE, day |-> 0, ms |-> 0]

DateAt(day, ms) == [valid |-> TRUE, day |-> day, ms |-> ms]

\* new Date(year, monthIndex, day): local midnight; a year 0..99 means
\* 1900 + year; month and day roll over.
NewDateYMD(year, monthIndex, day) ==
  LET fullYear == IF year >= 0 /\ year <= 99 THEN 1900 + year ELSE year
      ym == fullYear + (monthIndex \div 12)
      mn == (monthIndex % 12) + 1
  IN  DateAt(DaysFromCivil(ym, mn, 1) + day - 1, 0)

\* d.setHours(h, 0, 0, 0): same local day, time h:00:00.000; an Invalid Date
\* stays invalid.
setHours(d, h) ==
  IF d.valid THEN DateAt(d.day, h * MsPerHour) ELSE InvalidDate

\* d.setDate(d.getDate() + n)
AddDays(d, n) ==
  IF d.valid THEN DateAt(d.day + n, d.ms) ELSE InvalidDate

\* DateGe with the lower bound dropped: any two valid dates compare true.
DateGeNoLowerBound(a, b) == a.valid /\ b.valid

\* a >= b and a <= b on Date objects: a comparison of the time values, false
\* when either is NaN.
DateGe(a, b) ==
  a.valid /\ b.valid /\ (a.day > b.day \/ (a.day = b.day /\ a.ms >= b.ms))

DateLe(a, b) ==
  a.valid /\ b.valid /\ (a.day < b.day \/ (a.day = b.day /\ a.ms <= b.ms))

\* ------------------------------------------------------------------------
\* JavaScript values
\* ------------------------------------------------------------------------
Undefined == [t |-> "undefined", date |-> InvalidDate, n |-> 0, s |-> <<>>]

Null == [t |-> "null", date |-> InvalidDate, n |-> 0, s |-> <<>>]

DateVal(d) == [t |-> "date", date |-> d, n |-> 0, s |-> <<>>]

NumVal(n) == [t |-> "number", date |-> InvalidDate, n |-> n, s |-> <<>>]

StrVal(s) == [t |-> "string", date |-> InvalidDate, n |-> 0, s |-> s]

\* !v is false: objects (a Date, even an invalid one) are always truthy, a
\* string is truthy unless empty, a number unless 0.
Truthy(v) ==
  CASE v.t = "undefined" -> FALSE
    [] v.t = "null"      -> FALSE
    [] v.t = "date"      -> TRUE
    [] v.t = "number"    -> v.n # 0
    [] v.t = "string"    -> v.s # <<>>

\* ------------------------------------------------------------------------
\* Strings
\* ------------------------------------------------------------------------
DigitChars == <<"0", "1", "2", "3", "4", "5", "6", "7", "8", "9">>

IsDigit(c) == \E i \in 1..10 : DigitChars[i] = c

DigitVal(c) == (CHOOSE i \in 1..10 : DigitChars[i] = c) - 1

IsSpace(c) == c \in {" ", "\t", "\n", "\r"}

AllDigits(s) == \A i \in 1..Len(s) : IsDigit(s[i])

HasDigit(s) == \E i \in 1..Len(s) : IsDigit(s[i])

\* Decimal digits of a natural number (Number.prototype.toString).
RECURSIVE NatToStr(_)
NatToStr(n) ==
  IF n < 10 THEN <<DigitChars[n + 1]>>
  ELSE NatToStr(n \div 10) \o <<DigitChars[(n % 10) + 1]>>

\* parseInt(s, 10) of a string of digits.
RECURSIVE parseInt(_)
parseInt(s) ==
  IF s = <<>> THEN 0
  ELSE 10 * parseInt(SubSeq(s, 1, Len(s) - 1)) + DigitVal(s[Len(s)])

RECURSIVE TrimLeft(_)
TrimLeft(s) ==
  IF s # <<>> /\ IsSpace(Head(s)) THEN TrimLeft(Tail(s)) ELSE s

RECURSIVE TrimRight(_)
TrimRight(s) ==
  IF s # <<>> /\ IsSpace(s[Len(s)]) THEN TrimRight(SubSeq(s, 1, Len(s) - 1)) ELSE s

\* String.prototype.trim
trim(s) == TrimRight(TrimLeft(s))

\* (optDate || "").toString() of a truthy non-Date value.
toString(v) ==
  CASE v.t = "string" -> v.s
    [] v.t = "number" -> NatToStr(v.n)
    [] OTHER          -> <<>>

\* ------------------------------------------------------------------------
\* The two regular expressions of parseBaseDate_
\* ------------------------------------------------------------------------
IsDateSep(c) == c = "/" \/ c = "-"

\* s.match(/^(\d{1,2})[\/\-](\d{1,2})[\/\-](\d{2,4})$/): the three groups, or
\* <<>> when the string does not match.
MatchMonthFirst(s) ==
  LET fits == {p \in (1..2) \X (1..2) \X (2..4) :
                 /\ p[1] + p[2] + p[3] + 2 = Len(s)
                 /\ AllDigits(SubSeq(s, 1, p[1]))
                 /\ IsDateSep(s[p[1] + 1])
                 /\ AllDigits(SubSeq(s, p[1] + 2, p[1] + 1 + p[2]))
                 /\ IsDateSep(s[p[1] + p[2] + 2])
                 /\ AllDigits(SubSeq(s, p[1] + p[2] + 3, Len(s)))}
  IN  IF fits = {} THEN <<>>
      ELSE LET p == CHOOSE q \in fits : TRUE
           IN  << SubSeq(s, 1, p[1]),
                  SubSeq(s, p[1] + 2, p[1] + 1 + p[2]),
                  SubSeq(s, p[1] + p[2] + 3, Len(s)) >>

\* s.match(/^(\d{4})-(\d{2})-(\d{2})$/)
MatchIso(s) ==
  IF /\ Len(s) = 10
     /\ AllDigits(SubSeq(s, 1, 4))
     /\ s[5] = "-"
     /\ AllDigits(SubSeq(s, 6, 7))
     /\ s[8] = "-"
     /\ AllDigits(SubSeq(s, 9, 10))
  THEN << SubSeq(s, 1, 4), SubSeq(s, 6, 7), SubSeq(s, 9, 10) >>
  ELSE <<>>

\* parseBaseDate_ without the final fallback: text the runtime cannot parse
\* gives the Invalid Date itself.
parseBaseDate_NoFallback(optDate, clock, engineParsed) ==
  IF ~Truthy(optDate) THEN setHours(clock, MiddayHour)
  ELSE IF optDate.t = "date" THEN setHours(optDate.date, MiddayHour)
  ELSE
    LET s   == trim(toString(optDate))
        m   == MatchMonthFirst(s)
        iso == MatchIso(s)
    IN  IF s = <<>> THEN setHours(clock, MiddayHour)
        ELSE IF m # <<>> THEN
          LET yr == parseInt(m[3])
          IN  setHours(NewDateYMD(IF yr < TwoDigitYearLimit
                                  THEN yr + TwoDigitYearBase ELSE yr,
                                  parseInt(m[1]) - 1, parseInt(m[2])),
                       MiddayHour)
        ELSE IF iso # <<>> THEN
          setHours(NewDateYMD(parseInt(iso[1]), parseInt(iso[2]) - 1,
                              parseInt(iso[3])), MiddayHour)
        ELSE setHours(engineParsed, MiddayHour)

\* ------------------------------------------------------------------------
\* parseBaseDate_
\* ------------------------------------------------------------------------
\* clock is what new Date() returns during the call; engineParsed is what the
\* runtime's new Date(s) returns for the trimmed string (read only on the
\* generic branch).
parseBaseDate_(optDate, clock, engineParsed) ==
  IF ~Truthy(optDate) THEN setHours(clock, MiddayHour)
  ELSE IF optDate.t = "date" THEN setHours(optDate.date, MiddayHour)
  ELSE
    LET s   == trim(toString(optDate))
        m   == MatchMonthFirst(s)
        iso == MatchIso(s)
    IN  IF s = <<>> THEN setHours(clock, MiddayHour)
        ELSE IF m # <<>> THEN
          LET month == parseInt(m[1]) - 1
              day   == parseInt(m[2])
              yr    == parseInt(m[3])
              year  == IF yr < TwoDigitYearLimit THEN yr + TwoDigitYearBase ELSE yr
          IN  setHours(NewDateYMD(year, month, day), MiddayHour)
        ELSE IF iso # <<>> THEN
          LET y   == parseInt(iso[1])
              mth == parseInt(iso[2]) - 1
              dy  == parseInt(iso[3])
          IN  setHours(NewDateYMD(y, mth, dy), MiddayHour)
        ELSE IF engineParsed.valid THEN setHours(engineParsed, MiddayHour)
        ELSE setHours(clock, MiddayHour)

\* ------------------------------------------------------------------------
\* getNextUpcomingRow_
\* ------------------------------------------------------------------------
\* new Date(value) of a sheet cell: a Date is copied; undefined, the empty
\* string and text without a digit give an Invalid Date; other text is parsed
\* by the runtime (engineParsed).
NewDate(value, engineParsed) ==
  CASE value.t = "date"      -> value.date
    [] value.t = "undefined" -> InvalidDate
    [] value.t = "null"      -> DateAt(0, 0)
    [] value.t = "number"    -> DateAt(value.n \div MsPerDay, value.n % MsPerDay)
    [] value.t = "string"    ->
         IF HasDigit(value.s) THEN engineParsed ELSE InvalidDate

\* The value returned for "no row": JavaScript null.
NoRow == -1

ArrayOf(rows) == [isArray |-> TRUE, rows |-> rows]

UndefinedArray == [isArray |-> FALSE, rows |-> <<>>]

\* ScanRows by date priority: of the rows from index i whose date lies in
\* the window, the one with the earliest date.
ScanRowsEarliestDate(rows, i, today, maxDate, engineParsed) ==
  LET inside == {j \in i..(Len(rows) - 1) :
                   /\ DateGe(NewDate(rows[j + 1][1], engineParsed), today)
                   /\ DateLe(NewDate(rows[j + 1][1], engineParsed), maxDate)}
  IN  IF inside = {} THEN NoRow
      ELSE CHOOSE j \in inside :
             \A k \in inside :
               \/ k = j
               \/ ~DateGe(NewDate(rows[j + 1][1], engineParsed),
                          NewDate(rows[k + 1][1], engineParsed))
               \/ (j < k /\ NewDate(rows[j + 1][1], engineParsed)
                            = NewDate(rows[k + 1][1], engineParsed))

\* ScanRows giving up at the first row whose date cannot be converted.
RECURSIVE ScanRowsAbortOnInvalid(_, _, _, _, _)
ScanRowsAbortOnInvalid(rows, i, today, maxDate, engineParsed) ==
  IF ~(i < Len(rows)) THEN NoRow
  ELSE LET rowDate == NewDate(rows[i + 1][1], engineParsed)
       IN  IF ~rowDate.valid THEN NoRow
           ELSE IF DateGe(rowDate, today) /\ DateLe(rowDate, maxDate) THEN i
           ELSE ScanRowsAbortOnInvalid(rows, i + 1, today, maxDate, engineParsed)

\* The for loop from JavaScript index i: the index of the first row whose
\* date lies in [today, maxDate], or NoRow.
RECURSIVE ScanRows(_, _, _, _, _)
ScanRows(rows, i, today, maxDate, engineParsed) ==
  IF ~(i < Len(rows)) THEN NoRow
  ELSE LET k       == rows[i + 1]
           rowDate == NewDate(k[1], engineParsed)
       IN  IF DateGe(rowDate, today) /\ DateLe(rowDate, maxDate) THEN i
           ELSE ScanRows(rows, i + 1, today, maxDate, engineParsed)

\* getNextUpcomingRow_ with the window one day too long.
getNextUpcomingRow_WideWindow(data, optBaseDate, clock, engineParsed) ==
  LET today   == parseBaseDate_(optBaseDate, clock, engineParsed)
      maxDate == AddDays(today, WindowDays + 1)
  IN  IF ~data.isArray THEN [threw |-> TRUE, idx |-> NoRow]
      ELSE [threw |-> FALSE,
            idx   |-> ScanRows(data.rows, 1, today, maxDate, engineParsed)]

\* getNextUpcomingRow_ with the loop started at index 0, the header row.
getNextUpcomingRow_FromHeader(data, optBaseDate, clock, engineParsed) ==
  LET today   == parseBaseDate_(optBaseDate, clock, engineParsed)
      maxDate == AddDays(today, WindowDays)
  IN  IF ~data.isArray THEN [threw |-> TRUE, idx |-> NoRow]
      ELSE [threw |-> FALSE,
            idx   |-> ScanRows(data.rows, 0, today, maxDate, engineParsed)]

\* data is [isArray, rows]; reading data.length of undefined throws.
getNextUpcomingRow_(data, optBaseDate, clock, engineParsed) ==
  LET today   == parseBaseDate_(optBaseDate, clock, engineParsed)
      maxDate == AddDays(today, WindowDays)
  IN  IF ~data.isArray THEN [threw |-> TRUE, idx |-> NoRow]
      ELSE [threw |-> FALSE,
            idx   |-> ScanRows(data.rows, 1, today, maxDate, engineParsed)]

\* The earlier variant of the two functions (the script as the repository's
\* test file documents it): the same branches, pinned to 00:00:00.000.
parseBaseDate_Midnight(optDate, clock, engineParsed) ==
  IF ~Truthy(optDate) THEN setHours(clock, 0)
  ELSE IF optDate.t = "date" THEN setHours(optDate.date, 0)
  ELSE
    LET s   == trim(toString(optDate))
        m   == MatchMonthFirst(s)
        iso == MatchIso(s)
    IN  IF s = <<>> THEN setHours(clock, 0)
        ELSE IF m # <<>> THEN
          LET month == parseInt(m[1]) - 1
              day   == parseInt(m[2])
              yr    == parseInt(m[3])
              year  == IF yr < TwoDigitYearLimit THEN yr + TwoDigitYearBase ELSE yr
          IN  setHours(NewDateYMD(year, month, day), 0)
        ELSE IF iso # <<>> THEN
          LET y   == parseInt(iso[1])
              mth == parseInt(iso[2]) - 1
              dy  == parseInt(iso[3])
          IN  setHours(NewDateYMD(y, mth, dy), 0)
        ELSE IF engineParsed.valid THEN setHours(engineParsed, 0)
        ELSE setHours(clock, 0)

\* The earlier getNextUpcomingRow_ with a window of six days.
getNextUpcomingRow_MidnightSixDays(data, optBaseDate, clock, engineParsed) ==
  LET today   == parseBaseDate_Midnight(optBaseDate, clock, engineParsed)
      maxDate == AddDays(today, WindowDays - 1)
  IN  IF ~data.isArray THEN [threw |-> TRUE, idx |-> NoRow]
      ELSE [threw |-> FALSE,
            idx   |-> ScanRows(data.rows, 1, today, maxDate, engineParsed)]

getNextUpcomingRow_Midnight(data, optBaseDate, clock, engineParsed) ==
  LET today   == parseBaseDate_Midnight(optBaseDate, clock, engineParsed)
      maxDate == AddDays(today, WindowDays)
  IN  IF ~data.isArray THEN [threw |-> TRUE, idx |-> NoRow]
      ELSE [threw |-> FALSE,
            idx   |-> ScanRows(data.rows, 1, today, maxDate, engineParsed)]

\* ------------------------------------------------------------------------
\* Script properties and the Emails sheet
\* ------------------------------------------------------------------------
\* getProperty returns null for a key that is not set: modelled as "".
getSheetId_(properties) ==
  IF properties.SHEET_ID = "" THEN [threw |-> TRUE, value |-> ""]
  ELSE [threw |-> FALSE, value |-> properties.SHEET_ID]

\* getSheetData_(sheetName): the sheet's values, or the error of getSheetId_.
getSheetData_(properties, sheet) ==
  IF getSheetId_(properties).threw THEN [threw |-> TRUE, rows |-> <<>>]
  ELSE [threw |-> FALSE, rows |-> sheet]

\* The loop of getEmailRecipients_ from JavaScript index i: column A of every
\* row with a truthy cell, in order.
RECURSIVE CollectEmails(_, _)
CollectEmails(rows, i) ==
  IF ~(i < Len(rows)) THEN <<>>
  ELSE LET email == rows[i + 1][1]
       IN  (IF email # "" THEN <<email>> ELSE <<>>) \o CollectEmails(rows, i + 1)

getEmailRecipients_(properties, sheet) ==
  LET data == getSheetData_(properties, sheet)
  IN  IF data.threw THEN [threw |-> TRUE, emails |-> <<>>]
      ELSE [threw |-> FALSE, emails |-> CollectEmails(data.rows, 1)]

\* ------------------------------------------------------------------------
\* Text
\* ------------------------------------------------------------------------
\* Text that is only concatenated and compared (row fields, messages, email
\* addresses) is a TLA+ string; Chars gives its characters.
Chars(str) == [i \in 1..Len(str) |-> SubSeq(str, i, i)]

\* The text made of the characters cs, put together half by half.
RECURSIVE Implode(_)
Implode(cs) ==
  IF Len(cs) = 0 THEN ""
  ELSE IF Len(cs) = 1 THEN cs[1]
  ELSE LET h == Len(cs) \div 2
       IN  Implode(SubSeq(cs, 1, h)) \o Implode(SubSeq(cs, h + 1, Len(cs)))

UpperCaseLetters == "ABCDEFGHIJKLMNOPQRSTUVWXYZ"

LowerCaseLetters == "abcdefghijklmnopqrstuvwxyz"

LowerChar(c) ==
  IF \E i \in 1..Len(UpperCaseLetters) : SubSeq(UpperCaseLetters, i, i) = c
  THEN LET i == CHOOSE j \in 1..Len(UpperCaseLetters) :
                  SubSeq(UpperCaseLetters, j, j) = c
       IN  SubSeq(LowerCaseLetters, i, i)
  ELSE c

\* String.prototype.toLowerCase
toLowerCase(str) == Implode([i \in 1..Len(str) |-> LowerChar(SubSeq(str, i, i))])

\* String.prototype.trim on text
trimText(str) == Implode(trim(Chars(str)))

\* A number written with at least two digits ("MM", "dd").
Pad2(n) == IF n < 10 THEN "0" \o Implode(NatToStr(n)) ELSE Implode(NatToStr(n))

\* A number written with at least four digits ("yyyy").
Pad4(n) ==
  IF n < 10 THEN "000" \o Implode(NatToStr(n))
  ELSE IF n < 100 THEN "00" \o Implode(NatToStr(n))
  ELSE IF n < 1000 THEN "0" \o Implode(NatToStr(n))
  ELSE Implode(NatToStr(n))

\* ------------------------------------------------------------------------
\* Time zones
\* ------------------------------------------------------------------------
\* The Date object of the script runs in the script's time zone: [day, ms]
\* is the wall clock of that zone.  Utilities.formatDate takes the instant
\* and writes it in the zone it is given.  Three zones: one without
\* daylight saving, one west of Greenwich and one far east of it, each of
\* the last two with its daylight-saving rule.
TimeZones == {"UTC", "America/Denver", "Pacific/Auckland"}

\* 0 = Sunday; 1970-01-01 was a Thursday.
Weekday(day) == (day + 4) % 7

SundayOnOrAfter(day) == day + ((7 - Weekday(day)) % 7)

\* [day, ms] moved by a whole number of hours.
ShiftMs(d, total) ==
  DateAt(d.day + (total \div MsPerDay), total % MsPerDay)

ShiftHours(d, h) == ShiftMs(d, d.ms + h * MsPerHour)

\* The zone's offset from UTC, in hours, at the UTC instant u of year y.
UtcOffsetInYear(zone, u, y) ==
  CASE zone = "UTC" -> 0
    [] zone = "America/Denver" ->
         \* second Sunday of March 02:00 MST to first Sunday of
         \* November 02:00 MDT
         IF /\ DateGe(u, DateAt(SundayOnOrAfter(DaysFromCivil(y, 3, 8)),
                                9 * MsPerHour))
            /\ ~DateGe(u, DateAt(SundayOnOrAfter(DaysFromCivil(y, 11, 1)),
                                 8 * MsPerHour))
         THEN -6 ELSE -7
    [] zone = "Pacific/Auckland" ->
         \* last Sunday of September 02:00 NZST to first Sunday of
         \* April 03:00 NZDT
         IF \/ ~DateGe(u, DateAt(SundayOnOrAfter(DaysFromCivil(y, 4, 1)) - 1,
                                 14 * MsPerHour))
            \/ DateGe(u, DateAt(SundayOnOrAfter(DaysFromCivil(y, 9, 24)) - 1,
                                14 * MsPerHour))
         THEN 13 ELSE 12

\* The zone's offset from UTC, in hours, at the UTC instant u.
UtcOffsetAt(zone, u) == UtcOffsetInYear(zone, u, CivilFromDays(u.day).year)

\* The offsets the zone ever uses.
ZoneOffsets(zone) ==
  CASE zone = "UTC" -> {0}
    [] zone = "America/Denver" -> {-7, -6}
    [] zone = "Pacific/Auckland" -> {12, 13}

MinOf(S) == CHOOSE x \in S : \A z \in S : x <= z

MaxOf(S) == CHOOSE x \in S : \A z \in S : z <= x

\* The offset among fits, the offsets under which a wall-clock time is
\* itself: a time skipped by the change to daylight saving is read with the
\* offset in force before the change, one that occurs twice is the earlier
\* instant.
PickOffset(zone, fits) ==
  IF fits = {} THEN MinOf(ZoneOffsets(zone)) ELSE MaxOf(fits)

\* The UTC instant of a wall-clock time of the zone (the time value of the
\* Date): the offset is the one in force at that instant.
WallToUtc(zone, d) ==
  ShiftHours(d, -PickOffset(zone,
                   {o \in ZoneOffsets(zone) :
                      UtcOffsetAt(zone, ShiftHours(d, -o)) = o}))

\* The wall clock of the zone at the UTC instant u.
UtcToWall(zone, u) == ShiftHours(u, UtcOffsetAt(zone, u))

DayNames ==
  << "Sunday", "Monday", "Tuesday", "Wednesday", "Thursday", "Friday",
     "Saturday" >>

MonthNames ==
  << "January", "February", "March", "April", "May", "June", "July",
     "August", "September", "October", "November", "December" >>

\* The two patterns the script uses, for a day of the week and a civil date.
FormatCivil(weekday, civil, pattern) ==
  CASE pattern = "MM-dd" -> Pad2(civil.month) \o "-" \o Pad2(civil.date)
    [] pattern = "EEEE, MMMM d, yyyy" ->
         DayNames[weekday + 1] \o ", " \o MonthNames[civil.month] \o " "
         \o Implode(NatToStr(civil.date)) \o ", " \o Pad4(civil.year)

FormatWall(wall, pattern) ==
  FormatCivil(Weekday(wall.day), CivilFromDays(wall.day), pattern)

\* Utilities.formatDate(d, timeZone, pattern); d is a Date of a runtime in
\* zone runtimeZone.
formatDate(d, runtimeZone, timeZone, pattern) ==
  FormatWall(UtcToWall(timeZone, WallToUtc(runtimeZone, d)), pattern)

\* formatRowDate_ formatting in GMT instead of the script's time zone.
formatRowDate_InGmt(value, pattern, scriptTimeZone) ==
  formatDate(setHours(NewDate(value, InvalidDate), MiddayHour),
             scriptTimeZone, "UTC", pattern)

\* formatRowDate_(value, pattern): scriptTimeZone is what
\* Session.getScriptTimeZone() returns.
formatRowDate_(value, pattern, scriptTimeZone) ==
  LET d == setHours(NewDate(value, InvalidDate), MiddayHour)
  IN  formatDate(d, scriptTimeZone, scriptTimeZone, pattern)

getShortDate_(value, scriptTimeZone) ==
  formatRowDate_(value, "MM-dd", scriptTimeZone)

\* ------------------------------------------------------------------------
\* Schedule rows as the message builders read them
\* ------------------------------------------------------------------------
\* The row argument k: null, or an array of cells.  Cell 0 is the date, the
\* cells after it are text.
NullRow == [isNull |-> TRUE, k |-> <<>>]

RowOf(k) == [isNull |-> FALSE, k |-> k]

\* k[j] || "": a cell beyond the end of the row is undefined.
FieldOrEmpty(k, j) == IF j < Len(k) THEN k[j + 1] ELSE ""

\* ${k[j]} in a template literal.
Interpolate(k, j) == IF j < Len(k) THEN k[j + 1] ELSE "undefined"

\* k[0]; undefined beyond the end of the row.
DateCell(k) == IF Len(k) > 0 THEN k[1] ELSE Undefined

\* isNoGroupRow_ comparing the text as written, without trim and
\* toLowerCase.
isNoGroupRow_Exact(row) ==
  IF row.isNull THEN FALSE ELSE FieldOrEmpty(row.k, 2) = "No Group"

isNoGroupRow_(row) ==
  IF row.isNull THEN FALSE
  ELSE LET location == toLowerCase(trimText(FieldOrEmpty(row.k, 2)))
       IN  location = "no group"

\* ------------------------------------------------------------------------
\* Message builders
\* ------------------------------------------------------------------------
getSignupUrl_(properties) ==
  LET sheetId == getSheetId_(properties)
  IN  IF sheetId.threw THEN [threw |-> TRUE, text |-> ""]
      ELSE [threw |-> FALSE,
            text  |-> "https://docs.google.com/spreadsheets/d/" \o sheetId.value
                      \o "/edit?usp=sharing"]

\* buildEmailBody_ without the special case of a no-group row.
buildEmailBody_NoSpecialCase(row, properties, scriptTimeZone) ==
  IF row.isNull THEN [threw |-> FALSE, text |-> "No upcoming events found."]
  ELSE
    LET formattedDate ==
          formatRowDate_(DateCell(row.k), "EEEE, MMMM d, yyyy", scriptTimeZone)
        signupUrl == getSignupUrl_(properties)
    IN  IF signupUrl.threw THEN [threw |-> TRUE, text |-> ""]
        ELSE [threw |-> FALSE,
              text  |->
                "\n  <p><strong>Date:</strong> " \o formattedDate \o "</p>"
                \o "\n  <p><strong>Description:</strong> "
                \o Interpolate(row.k, 1) \o "</p>"
                \o "\n  <p><strong>Location:</strong> "
                \o Interpolate(row.k, 2) \o "</p>"
                \o "\n  <p><strong>Food Theme:</strong> "
                \o Interpolate(row.k, 3) \o "</p>"
                \o "\n  <p><strong>Childcare Duty:</strong> "
                \o Interpolate(row.k, 4) \o "</p>"
                \o "\n  <p><a href=\"" \o signupUrl.text
                \o "\">Click here to sign up</a></p>\n"]

\* "<", ">" and "&" of a text written as HTML entities.
EscapeChar(c) ==
  CASE c = "<" -> "&lt;"
    [] c = ">" -> "&gt;"
    [] c = "&" -> "&amp;"
    [] OTHER -> c

EscapeHtml(str) == Implode([i \in 1..Len(str) |-> EscapeChar(SubSeq(str, i, i))])

\* buildEmailBody_ escaping the row's values before it inserts them.
buildEmailBody_Escaped(row, properties, scriptTimeZone) ==
  IF row.isNull THEN [threw |-> FALSE, text |-> "No upcoming events found."]
  ELSE IF isNoGroupRow_(row) THEN
    [threw |-> FALSE,
     text  |-> "NO GROUP for Mendez/Williams City Group on "
               \o getShortDate_(DateCell(row.k), scriptTimeZone)]
  ELSE
    LET formattedDate ==
          formatRowDate_(DateCell(row.k), "EEEE, MMMM d, yyyy", scriptTimeZone)
        signupUrl == getSignupUrl_(properties)
    IN  IF signupUrl.threw THEN [threw |-> TRUE, text |-> ""]
        ELSE [threw |-> FALSE,
              text  |->
                "\n  <p><strong>Date:</strong> " \o formattedDate \o "</p>"
                \o "\n  <p><strong>Description:</strong> "
                \o EscapeHtml(Interpolate(row.k, 1)) \o "</p>"
                \o "\n  <p><strong>Location:</strong> "
                \o EscapeHtml(Interpolate(row.k, 2)) \o "</p>"
                \o "\n  <p><strong>Food Theme:</strong> "
                \o EscapeHtml(Interpolate(row.k, 3)) \o "</p>"
                \o "\n  <p><strong>Childcare Duty:</strong> "
                \o EscapeHtml(Interpolate(row.k, 4)) \o "</p>"
                \o "\n  <p><a href=\"" \o signupUrl.text
                \o "\">Click here to sign up</a></p>\n"]

buildEmailBody_(row, properties, scriptTimeZone) ==
  IF row.isNull THEN [threw |-> FALSE, text |-> "No upcoming events found."]
  ELSE IF isNoGroupRow_(row) THEN
    LET noGroupFormattedDate == getShortDate_(DateCell(row.k), scriptTimeZone)
    IN  [threw |-> FALSE,
         text  |-> "NO GROUP for Mendez/Williams City Group on "
                   \o noGroupFormattedDate]
  ELSE
    LET formattedDate ==
          formatRowDate_(DateCell(row.k), "EEEE, MMMM d, yyyy", scriptTimeZone)
        signupUrl == getSignupUrl_(properties)
    IN  IF signupUrl.threw THEN [threw |-> TRUE, text |-> ""]
        ELSE [threw |-> FALSE,
              text  |->
                "\n  <p><strong>Date:</strong> " \o formattedDate \o "</p>"
                \o "\n  <p><strong>Description:</strong> "
                \o Interpolate(row.k, 1) \o "</p>"
                \o "\n  <p><strong>Location:</strong> "
                \o Interpolate(row.k, 2) \o "</p>"
                \o "\n  <p><strong>Food Theme:</strong> "
                \o Interpolate(row.k, 3) \o "</p>"
                \o "\n  <p><strong>Childcare Duty:</strong> "
                \o Interpolate(row.k, 4) \o "</p>"
                \o "\n  <p><a href=\"" \o signupUrl.text
                \o "\">Click here to sign up</a></p>\n"]

\* buildEmailSubject_ without the NO GROUP form.
buildEmailSubject_Unmarked(row, scriptTimeZone) ==
  IF row.isNull THEN "Reminder for Mendez/Williams City Group"
  ELSE "Reminder for Mendez/Williams City Group on "
       \o getShortDate_(DateCell(row.k), scriptTimeZone)

buildEmailSubject_(row, scriptTimeZone) ==
  IF row.isNull THEN "Reminder for Mendez/Williams City Group"
  ELSE
    LET formattedDate == getShortDate_(DateCell(row.k), scriptTimeZone)
    IN  IF isNoGroupRow_(row)
        THEN "NO GROUP for Mendez/Williams City Group on " \o formattedDate
        ELSE "Reminder for Mendez/Williams City Group on " \o formattedDate

\* Array.prototype.join
RECURSIVE Join(_, _)
Join(parts, sep) ==
  IF parts = <<>> THEN ""
  ELSE IF Len(parts) = 1 THEN parts[1]
  ELSE parts[1] \o sep \o Join(Tail(parts), sep)

\* buildGroupMeMessage_ answering a null row with the sentence of the email
\* body.
buildGroupMeMessage_NullAsBody(row, properties, scriptTimeZone) ==
  IF row.isNull
  THEN [threw |-> FALSE, text |-> "No upcoming events found."]
  ELSE
    LET shortDate == getShortDate_(DateCell(row.k), scriptTimeZone)
        signupUrl == getSignupUrl_(properties)
    IN  IF isNoGroupRow_(row)
        THEN [threw |-> FALSE,
              text  |-> "NO GROUP for Mendez/Williams City Group on " \o shortDate]
        ELSE IF signupUrl.threw THEN [threw |-> TRUE, text |-> ""]
        ELSE [threw |-> FALSE,
              text  |-> Join(<< "Reminder for Mendez/Williams City Group on "
                                  \o shortDate,
                                "Description: " \o Interpolate(row.k, 1),
                                "Location: " \o Interpolate(row.k, 2),
                                "Food Theme: " \o Interpolate(row.k, 3),
                                "Childcare Duty: " \o Interpolate(row.k, 4),
                                "Sign up: " \o signupUrl.text >>, "\n")]

\* buildGroupMeMessage_ with the long-form date in its first line.
buildGroupMeMessage_LongDateFirst(row, properties, scriptTimeZone) ==
  IF row.isNull
  THEN [threw |-> FALSE, text |-> "Reminder for Mendez/Williams City Group"]
  ELSE
    LET shortDate == getShortDate_(DateCell(row.k), scriptTimeZone)
        signupUrl == getSignupUrl_(properties)
    IN  IF isNoGroupRow_(row)
        THEN [threw |-> FALSE,
              text  |-> "NO GROUP for Mendez/Williams City Group on " \o shortDate]
        ELSE IF signupUrl.threw THEN [threw |-> TRUE, text |-> ""]
        ELSE [threw |-> FALSE,
              text  |-> Join(<< "Reminder for Mendez/Williams City Group on "
                                  \o formatRowDate_(DateCell(row.k),
                                                    "EEEE, MMMM d, yyyy",
                                                    scriptTimeZone),
                                "Description: " \o Interpolate(row.k, 1),
                                "Location: " \o Interpolate(row.k, 2),
                                "Food Theme: " \o Interpolate(row.k, 3),
                                "Childcare Duty: " \o Interpolate(row.k, 4),
                                "Sign up: " \o signupUrl.text >>, "\n")]

\* buildGroupMeMessage_ with the location before the description.
buildGroupMeMessage_LocationFirst(row, properties, scriptTimeZone) ==
  IF row.isNull
  THEN [threw |-> FALSE, text |-> "Reminder for Mendez/Williams City Group"]
  ELSE
    LET shortDate == getShortDate_(DateCell(row.k), scriptTimeZone)
        signupUrl == getSignupUrl_(properties)
    IN  IF isNoGroupRow_(row)
        THEN [threw |-> FALSE,
              text  |-> "NO GROUP for Mendez/Williams City Group on " \o shortDate]
        ELSE IF signupUrl.threw THEN [threw |-> TRUE, text |-> ""]
        ELSE [threw |-> FALSE,
              text  |-> Join(<< "Reminder for Mendez/Williams City Group on "
                                  \o shortDate,
                                "Location: " \o Interpolate(row.k, 2),
                                "Description: " \o Interpolate(row.k, 1),
                                "Food Theme: " \o Interpolate(row.k, 3),
                                "Childcare Duty: " \o Interpolate(row.k, 4),
                                "Sign up: " \o signupUrl.text >>, "\n")]

\* buildGroupMeMessage_ building the sign-up link before it tests for a
\* no-group row.
buildGroupMeMessage_LinkFirst(row, properties, scriptTimeZone) ==
  IF row.isNull
  THEN [threw |-> FALSE, text |-> "Reminder for Mendez/Williams City Group"]
  ELSE
    LET shortDate == getShortDate_(DateCell(row.k), scriptTimeZone)
        signupUrl == getSignupUrl_(properties)
    IN  IF signupUrl.threw THEN [threw |-> TRUE, text |-> ""]
        ELSE IF isNoGroupRow_(row)
        THEN [threw |-> FALSE,
              text  |-> "NO GROUP for Mendez/Williams City Group on " \o shortDate]
        ELSE LET lines ==
                   << "Reminder for Mendez/Williams City Group on " \o shortDate,
                      "Description: " \o Interpolate(row.k, 1),
                      "Location: " \o Interpolate(row.k, 2),
                      "Food Theme: " \o Interpolate(row.k, 3),
                      "Childcare Duty: " \o Interpolate(row.k, 4),
                      "Sign up: " \o signupUrl.text >>
             IN  [threw |-> FALSE, text |-> Join(lines, "\n")]

buildGroupMeMessage_(row, properties, scriptTimeZone) ==
  IF row.isNull
  THEN [threw |-> FALSE, text |-> "Reminder for Mendez/Williams City Group"]
  ELSE
    LET shortDate == getShortDate_(DateCell(row.k), scriptTimeZone)
        signupUrl == getSignupUrl_(properties)
    IN  IF isNoGroupRow_(row)
        THEN [threw |-> FALSE,
              text  |-> "NO GROUP for Mendez/Williams City Group on " \o shortDate]
        ELSE IF signupUrl.threw THEN [threw |-> TRUE, text |-> ""]
        ELSE LET lines ==
                   << "Reminder for Mendez/Williams City Group on " \o shortDate,
                      "Description: " \o Interpolate(row.k, 1),
                      "Location: " \o Interpolate(row.k, 2),
                      "Food Theme: " \o Interpolate(row.k, 3),
                      "Childcare Duty: " \o Interpolate(row.k, 4),
                      "Sign up: " \o signupUrl.text >>
             IN  [threw |-> FALSE, text |-> Join(lines, "\n")]

\* ------------------------------------------------------------------------
\* Sending email
\* ------------------------------------------------------------------------
\* \s of a regular expression.
IsRegexSpace(c) == c \in {" ", "\t", "\n", "\r"}

\* /^[^\s@]+@[^\s@]+\.[^\s@]+$/.test(email): one "@", no white space, text
\* before the "@", and after it a "." with text on both sides.
MatchesEmailPattern(email) ==
  LET cs == Chars(email)
  IN  \E a \in 2..Len(cs) :
        /\ cs[a] = "@"
        /\ \A i \in 1..Len(cs) : ~IsRegexSpace(cs[i]) /\ (cs[i] = "@" => i = a)
        /\ \E p \in (a + 2)..(Len(cs) - 1) : cs[p] = "."

\* isValidEmail_ without the length limit.
isValidEmail_NoLengthLimit(email) ==
  IF email = "" THEN FALSE ELSE MatchesEmailPattern(email)

isValidEmail_(email) ==
  IF email = "" THEN FALSE
  ELSE IF Len(email) > 320 THEN FALSE
  ELSE MatchesEmailPattern(email)

\* The recipients argument: undefined, or an array of text.
NoRecipients == [isArray |-> FALSE, items |-> <<>>]

RecipientsOf(items) == [isArray |-> TRUE, items |-> items]

\* The loop over normalizedRecipients from index i: every entry is pushed to
\* validRecipients or to invalidRecipients.
RECURSIVE PartitionRecipients(_, _)
PartitionRecipients(normalizedRecipients, i) ==
  IF ~(i < Len(normalizedRecipients)) THEN [valid |-> <<>>, invalid |-> <<>>]
  ELSE LET rest == PartitionRecipients(normalizedRecipients, i + 1)
           r    == normalizedRecipients[i + 1]
       IN  IF isValidEmail_(r)
           THEN [valid |-> <<r>> \o rest.valid, invalid |-> rest.invalid]
           ELSE [valid |-> rest.valid, invalid |-> <<r>> \o rest.invalid]

\* sendEmailToRecipients_ addressing the email to every entry, valid or not.
sendEmailToRecipients_ToAll(subject, body, recipients) ==
  IF ~recipients.isArray \/ Len(recipients.items) = 0
  THEN [valid |-> <<>>, invalid |-> <<>>,
        logs  |-> <<"No email recipients provided.">>, mail |-> <<>>]
  ELSE
    LET normalizedRecipients ==
          [i \in 1..Len(recipients.items) |-> trimText(recipients.items[i])]
        parts == PartitionRecipients(normalizedRecipients, 0)
    IN  [valid |-> parts.valid, invalid |-> parts.invalid, logs |-> <<>>,
         mail  |-> << [to |-> Join(normalizedRecipients, ","),
                       subject |-> subject, htmlBody |-> body] >>]

\* sendEmailToRecipients_: the two lists it builds, what it logs and the
\* emails it hands to MailApp.sendEmail.
sendEmailToRecipients_(subject, body, recipients) ==
  IF ~recipients.isArray \/ Len(recipients.items) = 0
  THEN [valid |-> <<>>, invalid |-> <<>>,
        logs  |-> <<"No email recipients provided.">>, mail |-> <<>>]
  ELSE
    LET normalizedRecipients ==
          [i \in 1..Len(recipients.items) |-> trimText(recipients.items[i])]
        parts             == PartitionRecipients(normalizedRecipients, 0)
        validRecipients   == parts.valid
        invalidRecipients == parts.invalid
        invalidLog ==
          IF Len(invalidRecipients) > 0
          THEN << "Invalid email recipients provided: "
                  \o Join(invalidRecipients, ",") >>
          ELSE <<>>
    IN  IF Len(validRecipients) = 0
        THEN [valid |-> validRecipients, invalid |-> invalidRecipients,
              logs  |-> invalidLog \o <<"No valid email recipients provided.">>,
              mail  |-> <<>>]
        ELSE [valid |-> validRecipients, invalid |-> invalidRecipients,
              logs  |-> invalidLog,
              mail  |-> << [to |-> Join(validRecipients, ","),
                            subject |-> subject, htmlBody |-> body] >>]

\* ------------------------------------------------------------------------
\* Posting to GroupMe
\* ------------------------------------------------------------------------
\* A character inside a JSON string.
JsonChar(c) ==
  CASE c = "\"" -> "\\\""
    [] c = "\\" -> "\\\\"
    [] c = "\n" -> "\\n"
    [] c = "\r" -> "\\r"
    [] c = "\t" -> "\\t"
    [] OTHER -> c

\* JSON.stringify of a string.
JsonString(str) ==
  "\"" \o Implode([i \in 1..Len(str) |-> JsonChar(SubSeq(str, i, i))]) \o "\""

\* JSON.stringify(payload) of { bot_id: ..., text: ... }.
JSONstringify(payload) ==
  "{\"bot_id\":" \o JsonString(payload.bot_id)
  \o ",\"text\":" \o JsonString(payload.text) \o "}"

NoPost == [logs |-> <<>>, fetches |-> <<>>]

\* postGroupMeMessageWithBotId_ posting the text as it was given.
postGroupMeMessageWithBotId_Untrimmed(botId, text) ==
  IF text = "" THEN
    [logs |-> <<"No GroupMe message text provided.">>, fetches |-> <<>>]
  ELSE IF botId = "" THEN
    [logs |-> <<"No GroupMe bot id provided.">>, fetches |-> <<>>]
  ELSE
    [logs    |-> <<>>,
     fetches |-> << [url     |-> "https://api.groupme.com/v3/bots/post",
                     method  |-> "post",
                     contentType |-> "application/json",
                     payload |-> JSONstringify([bot_id |-> botId, text |-> text]),
                     muteHttpExceptions |-> TRUE] >>]

\* postGroupMeMessageWithBotId_: what it logs and the requests it hands to
\* UrlFetchApp.fetch.  A missing argument reads "" (botId || "", text || "").
postGroupMeMessageWithBotId_(botId, text) ==
  LET message == trimText(text)
  IN  IF message = "" THEN
        [logs |-> <<"No GroupMe message text provided.">>, fetches |-> <<>>]
      ELSE
        LET normalizedBotId == trimText(botId)
        IN  IF normalizedBotId = "" THEN
              [logs |-> <<"No GroupMe bot id provided.">>, fetches |-> <<>>]
            ELSE
              [logs    |-> <<>>,
               fetches |->
                 << [url     |-> "https://api.groupme.com/v3/bots/post",
                     method  |-> "post",
                     contentType |-> "application/json",
                     payload |-> JSONstringify([bot_id |-> normalizedBotId,
                                                text   |-> message]),
                     muteHttpExceptions |-> TRUE] >>]

\* ------------------------------------------------------------------------
\* Bot ids and test recipients from the script properties
\* ------------------------------------------------------------------------
getGroupMeBotId_(properties) ==
  IF properties.GROUPME_BOT_ID = "" THEN [threw |-> TRUE, value |-> ""]
  ELSE [threw |-> FALSE, value |-> properties.GROUPME_BOT_ID]

getTestGroupMeBotId_(properties) ==
  IF properties.TEST_GROUPME_BOT_ID = "" THEN [threw |-> TRUE, value |-> ""]
  ELSE [threw |-> FALSE, value |-> properties.TEST_GROUPME_BOT_ID]

\* String.prototype.split(","), on the characters from index i on: part is
\* what has been read of the current piece.
RECURSIVE SplitFrom(_, _, _)
SplitFrom(cs, i, part) ==
  IF i > Len(cs) THEN <<Implode(part)>>
  ELSE IF cs[i] = "," THEN <<Implode(part)>> \o SplitFrom(cs, i + 1, <<>>)
  ELSE SplitFrom(cs, i + 1, Append(part, cs[i]))

split(str) == SplitFrom(Chars(str), 1, <<>>)

NotEmptyText(e) == e # ""

\* The pieces of the property, trimmed, the empty ones dropped.
TrimmedPieces(pieces) ==
  SelectSeq([i \in 1..Len(pieces) |-> trimText(pieces[i])], NotEmptyText)

getTestEmailRecipients_(properties) ==
  IF properties.TEST_EMAIL_RECIPIENTS = "" THEN [threw |-> TRUE, emails |-> <<>>]
  ELSE [threw  |-> FALSE,
        emails |-> TrimmedPieces(split(properties.TEST_EMAIL_RECIPIENTS))]

\* ------------------------------------------------------------------------
\* Composing and sending the reminder
\* ------------------------------------------------------------------------
NoReminder ==
  [threw |-> FALSE, subject |-> "", emailBody |-> "", message |-> "",
   row |-> NullRow]

\* The object composeReminder_ returns, from the results of the builders;
\* nothing is returned when one of them throws.
ReminderOf(subject, emailBody, message, row) ==
  IF emailBody.threw \/ message.threw THEN [NoReminder EXCEPT !.threw = TRUE]
  ELSE [threw |-> FALSE, subject |-> subject, emailBody |-> emailBody.text,
        message |-> message.text, row |-> row]

\* composeReminder_ with the subject of "no upcoming row" whatever the row.
composeReminder_FixedSubject(row, properties, scriptTimeZone) ==
  ReminderOf(buildEmailSubject_(NullRow, scriptTimeZone),
             buildEmailBody_(row, properties, scriptTimeZone),
             buildGroupMeMessage_(row, properties, scriptTimeZone), row)

\* composeReminder_ building the sign-up link before it looks at the row.
composeReminder_LinkFirst(row, properties, scriptTimeZone) ==
  IF getSheetId_(properties).threw THEN [NoReminder EXCEPT !.threw = TRUE]
  ELSE ReminderOf(buildEmailSubject_(row, scriptTimeZone),
                  buildEmailBody_(row, properties, scriptTimeZone),
                  buildGroupMeMessage_(row, properties, scriptTimeZone), row)

composeReminder_(row, properties, scriptTimeZone) ==
  ReminderOf(buildEmailSubject_(row, scriptTimeZone),
             buildEmailBody_(row, properties, scriptTimeZone),
             buildGroupMeMessage_(row, properties, scriptTimeZone), row)

getRecipientsForMode_(mode, properties, emailSheet) ==
  IF mode = "prod" THEN getEmailRecipients_(properties, emailSheet)
  ELSE getTestEmailRecipients_(properties)

\* getGroupMeBotIdForMode_ reading GROUPME_BOT_ID in every mode.
getGroupMeBotIdForMode_AlwaysProd(mode, properties) ==
  getGroupMeBotId_(properties)

getGroupMeBotIdForMode_(mode, properties) ==
  IF mode = "prod" THEN getGroupMeBotId_(properties)
  ELSE getTestGroupMeBotId_(properties)

\* The opts argument of performReminderSend_; given is FALSE when it is
\* missing, mode "" when opts has no mode.
OptsOf(mode, sendEmail, sendGroupMe, optBaseDate) ==
  [given |-> TRUE, mode |-> mode, sendEmail |-> sendEmail,
   sendGroupMe |-> sendGroupMe, optBaseDate |-> optBaseDate]

NoOpts ==
  [given |-> FALSE, mode |-> "", sendEmail |-> FALSE, sendGroupMe |-> FALSE,
   optBaseDate |-> Undefined]

\* (opts && opts.mode) || "prod"
ModeOf(opts) == IF opts.given /\ opts.mode # "" THEN opts.mode ELSE "prod"

\* A run of performReminderSend_: the steps it began, in order; the error
\* that ended it, named by the missing property; its local variables; the
\* sheets it read; the emails it sent, the requests it made, its log lines.
NoRun ==
  [steps |-> <<>>, threw |-> FALSE, error |-> "", reads |-> <<>>,
   scheduleData |-> <<>>, nextRow |-> NullRow, reminder |-> NoReminder,
   recipients |-> <<>>, botId |-> "", mail |-> <<>>, fetches |-> <<>>,
   logs |-> <<>>]

Thrown(run, error) == [run EXCEPT !.threw = TRUE, !.error = error]

Begin(run, step) == [run EXCEPT !.steps = Append(@, step)]

\* var scheduleData = getSheetData_(ScheduleSheetName);
Loaded(run, sheetData) ==
  IF sheetData.threw THEN Thrown(run, "SHEET_ID")
  ELSE [run EXCEPT !.scheduleData = sheetData.rows,
                   !.reads = Append(@, "Schedule")]

LoadStep(run, properties, schedule) ==
  Loaded(Begin(run, "load"), getSheetData_(properties, schedule))

\* var nextRow = getNextUpcomingRow_(scheduleData, opts && opts.optBaseDate);
RowSelected(run, found) ==
  IF found.threw THEN Thrown(run, "data")
  ELSE [run EXCEPT !.nextRow = IF found.idx = NoRow THEN NullRow
                                ELSE RowOf(run.scheduleData[found.idx + 1])]

SelectStep(run, opts, clock, engineParsed) ==
  IF run.threw THEN run
  ELSE RowSelected(Begin(run, "select"),
                 getNextUpcomingRow_(ArrayOf(run.scheduleData),
                                     IF opts.given THEN opts.optBaseDate
                                     ELSE Undefined,
                                     clock, engineParsed))

\* var reminder = composeReminder_(nextRow);
Composed(run, reminder) ==
  IF reminder.threw THEN Thrown(run, "SHEET_ID")
  ELSE [run EXCEPT !.reminder = reminder]

ComposeStep(run, properties, scriptTimeZone) ==
  IF run.threw THEN run
  ELSE Composed(Begin(run, "compose"),
                composeReminder_(run.nextRow, properties, scriptTimeZone))

\* if (opts && opts.sendEmail) { ... }
Emailed(run, sent, list) ==
  [run EXCEPT !.recipients = list, !.mail = @ \o sent.mail,
              !.logs = @ \o sent.logs]

EmailTo(run, mode, found) ==
  IF found.threw
  THEN Thrown(run, IF mode = "prod" THEN "SHEET_ID" ELSE "TEST_EMAIL_RECIPIENTS")
  ELSE Emailed([run EXCEPT !.reads = IF mode = "prod" THEN Append(@, "Emails")
                                     ELSE @],
               sendEmailToRecipients_(run.reminder.subject,
                                      run.reminder.emailBody,
                                      RecipientsOf(found.emails)),
               found.emails)

EmailStep(run, opts, mode, properties, emailSheet) ==
  IF run.threw \/ ~(opts.given /\ opts.sendEmail) THEN run
  ELSE EmailTo(Begin(run, "email"), mode,
               getRecipientsForMode_(mode, properties, emailSheet))

\* if (opts && opts.sendGroupMe) { ... }
Posted(run, post, botId) ==
  [run EXCEPT !.botId = botId, !.fetches = @ \o post.fetches,
              !.logs = @ \o post.logs]

PostWith(run, mode, found) ==
  IF found.threw
  THEN Thrown(run, IF mode = "prod" THEN "GROUPME_BOT_ID"
                   ELSE "TEST_GROUPME_BOT_ID")
  ELSE Posted(run, postGroupMeMessageWithBotId_(found.value,
                                                run.reminder.message),
              found.value)

GroupMeStep(run, opts, mode, properties) ==
  IF run.threw \/ ~(opts.given /\ opts.sendGroupMe) THEN run
  ELSE PostWith(Begin(run, "post"), mode,
                getGroupMeBotIdForMode_(mode, properties))

\* performReminderSend_ posting to GroupMe before it sends the email.
performReminderSend_PostFirst(opts, properties, clock, schedule, emailSheet, scriptTimeZone, engineParsed) ==
  EmailStep(
    GroupMeStep(
      ComposeStep(
        SelectStep(LoadStep(NoRun, properties, schedule), opts, clock,
                   engineParsed),
        properties, scriptTimeZone),
      opts, ModeOf(opts), properties),
    opts, ModeOf(opts), properties, emailSheet)

\* A run that ends after the selection when no row was selected.
QuietWhenNoRow(run) ==
  IF ~run.threw /\ run.nextRow.isNull THEN Thrown(run, "no row") ELSE run

\* performReminderSend_ delivering nothing when no row is in the window.
performReminderSend_QuietWhenNoRow(opts, properties, clock, schedule, emailSheet, scriptTimeZone, engineParsed) ==
  GroupMeStep(
    EmailStep(
      ComposeStep(
        QuietWhenNoRow(SelectStep(LoadStep(NoRun, properties, schedule), opts,
                                  clock, engineParsed)),
        properties, scriptTimeZone),
      opts, ModeOf(opts), properties, emailSheet),
    opts, ModeOf(opts), properties)

\* performReminderSend_(opts): properties, clock, the two sheets, the script
\* time zone and the runtime's date parsing are what it reads.
performReminderSend_(opts, properties, clock, schedule, emailSheet, scriptTimeZone, engineParsed) ==
  GroupMeStep(
    EmailStep(
      ComposeStep(
        SelectStep(LoadStep(NoRun, properties, schedule), opts, clock,
                   engineParsed),
        properties, scriptTimeZone),
      opts, ModeOf(opts), properties, emailSheet),
    opts, ModeOf(opts), properties)

\* The opts sendNotif passes.
ProdOpts == OptsOf("prod", TRUE, TRUE, Undefined)

sendNotif(properties, clock, schedule, emailSheet, scriptTimeZone, engineParsed) ==
  performReminderSend_(ProdOpts, properties, clock, schedule, emailSheet,
                       scriptTimeZone, engineParsed)

\* var optBaseDate = baseProp ? parseBaseDate_(baseProp) : undefined;
TestBaseDate(properties, clock, engineParsed) ==
  IF properties.TEST_BASE_DATE # ""
  THEN DateVal(parseBaseDate_(StrVal(Chars(properties.TEST_BASE_DATE)), clock,
                              engineParsed))
  ELSE Undefined

\* The opts testSendNotif passes.
TestOpts(properties, clock, engineParsed) ==
  OptsOf("test", TRUE, TRUE, TestBaseDate(properties, clock, engineParsed))

testSendNotif(properties, clock, schedule, emailSheet, scriptTimeZone, engineParsed) ==
  performReminderSend_(TestOpts(properties, clock, engineParsed), properties,
                       clock, schedule, emailSheet, scriptTimeZone,
                       engineParsed)

\* ------------------------------------------------------------------------
\* Inputs of the model
\* ------------------------------------------------------------------------
\* The day the inputs are laid out around: Wednesday 2025-12-17.
RefDay == DaysFromCivil(2025, 12, 17)

\* Readings of the clock: midnight, mid-morning and the last millisecond of
\* the next day.
Clocks ==
  { DateAt(RefDay, 0),
    DateAt(RefDay, 9 * MsPerHour + 1815250),
    DateAt(RefDay + 1, MsPerDay - 1) }

\* What the runtime's new Date(s) may return for text it parses by its own
\* rules: an Invalid Date or some date.
EngineDates == { DateAt(RefDay + 3, 0), DateAt(RefDay - 400, 5 * MsPerHour) }

MonthStrs == { <<"2">>, <<"0", "2">>, <<"1", "2">>, <<"1", "3">>, <<"0">> }

DayStrs == { <<"1">>, <<"0", "1">>, <<"2", "9">>, <<"3", "1">>, <<"4", "5">> }

YearStrs ==
  { <<"2", "5">>, <<"0", "0">>, <<"9", "9">>, <<"1", "0", "0">>,
    <<"0", "2", "5">>, <<"2", "0", "2", "4">>, <<"2", "0", "2", "5">>,
    <<"1", "9", "9", "9">> }

MonthFirstStrings ==
  { m \o <<a>> \o d \o <<b>> \o y :
      m \in MonthStrs, a \in {"/", "-"}, d \in DayStrs, b \in {"/", "-"},
      y \in YearStrs }

IsoYearStrs ==
  { <<"2", "0", "2", "5">>, <<"2", "0", "2", "4">>, <<"1", "9", "9", "9">>,
    <<"0", "0", "5", "0">>, <<"0", "0", "0", "0">> }

IsoMonthStrs == { <<"0", "2">>, <<"1", "2">>, <<"1", "3">>, <<"0", "0">> }

IsoDayStrs == { <<"0", "1">>, <<"2", "9">>, <<"3", "1">>, <<"4", "5">> }

IsoStrings ==
  { y \o <<"-">> \o m \o <<"-">> \o d :
      y \in IsoYearStrs, m \in IsoMonthStrs, d \in IsoDayStrs }

\* Blank text, padded dates, text that matches neither pattern.
OtherStrings ==
  { <<" ">>, <<" ", " ">>,
    <<" ", "1", "2", "/", "1", "7", "/", "2", "5", " ">>,
    <<" ", "2", "0", "2", "5", "-", "1", "2", "-", "1", "7">>,
    <<"x">>, <<"T", "B", "D">>,
    <<"1", "2", "/", "1", "7">>,
    <<"2", "0", "2", "5", "-", "1", "-", "5">>,
    <<"1", "2", "/", "1", "7", "/", "2", "0", "2", "5", "1">>,
    <<"D", "e", "c", " ", "1", "7">> }

BaseDateInputs ==
  { Undefined, Null, NumVal(0), NumVal(5), NumVal(20251217), StrVal(<<>>),
    DateVal(InvalidDate), DateVal(DateAt(RefDay, 0)),
    DateVal(DateAt(RefDay + 3, MsPerDay - 1)) }
  \cup { StrVal(s) : s \in MonthFirstStrings \cup IsoStrings \cup OtherStrings }

\* True when parseBaseDate_ reaches new Date(s) for this input.
ReachesGenericParse(v) ==
  /\ Truthy(v)
  /\ v.t # "date"
  /\ trim(toString(v)) # <<>>
  /\ MatchMonthFirst(trim(toString(v))) = <<>>
  /\ MatchIso(trim(toString(v))) = <<>>

\* The runtime's possible results of new Date(s) in a call with this input.
EngineOutcomes(v) ==
  IF ReachesGenericParse(v) /\ HasDigit(toString(v))
  THEN {InvalidDate} \cup EngineDates
  ELSE {InvalidDate}

\* Column A of a Schedule data row: dates around the window's two edges, an
\* empty cell and text.
DateCells ==
  { DateVal(DateAt(RefDay - 1, 0)),
    DateVal(DateAt(RefDay, 0)),
    DateVal(DateAt(RefDay, MiddayHour * MsPerHour)),
    DateVal(DateAt(RefDay + 1, 0)),
    DateVal(DateAt(RefDay + 2, 0)),
    DateVal(DateAt(RefDay + 7, 0)),
    DateVal(DateAt(RefDay + 7, 13 * MsPerHour)),
    DateVal(DateAt(RefDay + 8, 0)),
    StrVal(<<>>),
    StrVal(<<"T", "B", "D">>) }

ScheduleRow(cell) == <<cell, "Desc", "Loc", "Food", "Duty">>

\* Row 0: the usual header, or a header whose first cell is a date.
HeaderRows ==
  { <<StrVal(<<"D", "a", "t", "e">>), "Description", "Location", "Food Theme",
      "Childcare Duty">>,
    ScheduleRow(DateVal(DateAt(RefDay + 1, MiddayHour * MsPerHour))) }

RECURSIVE SeqsUpTo(_, _)
SeqsUpTo(S, n) ==
  IF n = 0 THEN {<<>>}
  ELSE LET shorter == SeqsUpTo(S, n - 1)
       IN  shorter \cup { Append(q, x) : q \in shorter, x \in S }

ScheduleTables ==
  { UndefinedArray, ArrayOf(<<>>) }
  \cup { ArrayOf(<<h>> \o [i \in 1..Len(q) |-> ScheduleRow(q[i])]) :
           h \in HeaderRows, q \in SeqsUpTo(DateCells, MaxRows) }

WindowBaseInputs ==
  { Undefined, DateVal(InvalidDate), DateVal(DateAt(RefDay, 0)),
    DateVal(DateAt(RefDay + 1, 18 * MsPerHour)),
    StrVal(<<"1", "2", "/", "1", "7", "/", "2", "5">>) }

EmailCells == { "Email", "a@example.com", "b@test.org", "" }

EmailSheets ==
  { [i \in 1..Len(q) |-> <<q[i]>>] : q \in SeqsUpTo(EmailCells, MaxEmailRows) }

\* A project with every property set but TEST_BASE_DATE; "" is a property
\* that is not set.
DefaultProperties ==
  [SHEET_ID              |-> "SHEET123",
   GROUPME_BOT_ID        |-> "BOT123",
   TEST_GROUPME_BOT_ID   |-> "TESTBOT",
   TEST_EMAIL_RECIPIENTS |-> "t1@test.org, t2@test.org",
   TEST_BASE_DATE        |-> ""]

PropertySets == { [DefaultProperties EXCEPT !.SHEET_ID = ""], DefaultProperties }

\* Values of TEST_BASE_DATE: the three supported formats, a padded one, a
\* year below 100, a day past the end of the month, and text that is no
\* date or that only the runtime can read.
TestBaseDates ==
  { "12/25/25", "12/25/2025", "2025-12-25", " 12/18/25 ", "0050-12-01",
    "02/30/25", "tomorrow", "Dec 25, 2025" }

\* The configurations of the entry points: one property missing, another
\* sheet, test recipients with blanks and invalid entries, a base date.
RunPropertySets ==
  { DefaultProperties,
    [DefaultProperties EXCEPT !.SHEET_ID = ""],
    [DefaultProperties EXCEPT !.SHEET_ID = "SHEET456"],
    [DefaultProperties EXCEPT !.GROUPME_BOT_ID = ""],
    [DefaultProperties EXCEPT !.TEST_GROUPME_BOT_ID = ""],
    [DefaultProperties EXCEPT !.TEST_EMAIL_RECIPIENTS = ""],
    [DefaultProperties EXCEPT !.TEST_EMAIL_RECIPIENTS = "not-an-email"],
    [DefaultProperties EXCEPT
       !.TEST_EMAIL_RECIPIENTS = " t1@test.org ,, bad,t2@test.org"] }
  \cup { [DefaultProperties EXCEPT !.TEST_BASE_DATE = b] : b \in TestBaseDates }

RunHeader ==
  << StrVal(Chars("Date")), "Description", "Location", "Food Theme",
     "Childcare Duty" >>

RunRow(offset, description, location) ==
  << DateVal(DateAt(RefDay + offset, 0)), description, location, "Food", "Duty" >>

\* Schedule sheets of the entry points: no data row, a row inside the
\* window of every clock, a no-group row, a row in the past, and rows that
\* only a later base date selects.
RunSchedules ==
  { <<>>,
    <<RunHeader>>,
    <<RunHeader, RunRow(-5, "Past", "Loc")>>,
    <<RunHeader, RunRow(3, "Desc", "Loc")>>,
    <<RunHeader, RunRow(3, "Desc", " no group ")>>,
    <<RunHeader, RunRow(-5, "Past", "Loc"), RunRow(3, "<b>Bring & share</b>", "Loc"),
      RunRow(4, "Later", "No Group")>>,
    <<RunHeader, RunRow(10, "After", "Loc"), RunRow(3, "Desc", "No Group")>> }

\* Emails sheets of the entry points.
RunEmailSheets ==
  { <<<<"Email">>>>,
    <<<<"Email">>, <<"p1@example.com">>, <<"p2@example.com">>>>,
    <<<<"Email">>, <<"bad">>, <<"">>, <<" p1@example.com ">>>>,
    <<<<"Email">>, <<"not-an-email">>>> }

\* The opts a caller of performReminderSend_ may pass: none, no mode, an
\* unknown mode, either channel switched off, a base date.
RunOpts ==
  { NoOpts }
  \cup { OptsOf(m, e, g, Undefined) :
           m \in {"", "prod", "test", "staging"}, e \in BOOLEAN, g \in BOOLEAN }
  \cup { OptsOf(m, TRUE, TRUE, DateVal(DateAt(RefDay + 8, 0))) :
           m \in {"prod", "test"} }

\* Every date of a leap year and of a common year, written mm/dd/yy.
ShortDateYears == {24, 25}

\* Month and day are written with two digits or as short as they go.
ShortDateStrings ==
  UNION { UNION { UNION { { Chars(Pad2(m) \o "/" \o Pad2(d) \o "/" \o Pad2(yy)),
                            Chars(Implode(NatToStr(m)) \o "/"
                                  \o Implode(NatToStr(d)) \o "/" \o Pad2(yy)) } :
                          d \in 1..DaysInMonth(TwoDigitYearBase + yy, m) } :
                  m \in 1..12 } :
          yy \in ShortDateYears }

\* Rows handed to the message builders: dates at midnight, at the last
\* millisecond of a day and on the day daylight saving starts; locations
\* that are, and are not, the "No Group" convention; rows cut short.
BuilderDateCells ==
  { DateVal(DateAt(RefDay, 0)),
    DateVal(DateAt(DaysFromCivil(2026, 1, 5), MsPerDay - 1)),
    DateVal(DateAt(DaysFromCivil(2025, 3, 9), 0)) }

Descriptions == { "Desc", "<b>Bring & share</b>" }

Locations ==
  { "Loc", "No Group", " no group ", "NO GROUP", "No Groupz", "no  group", "" }

BuilderRows ==
  { NullRow }
  \cup { RowOf(<<c, d, l, "Food", "Duty">>) :
           c \in BuilderDateCells, d \in Descriptions, l \in Locations }
  \cup { RowOf(<<c>>) : c \in BuilderDateCells }
  \cup { RowOf(<<c, d>>) : c \in BuilderDateCells, d \in Descriptions }

\* str written n times, built by doubling.
RECURSIVE Repeat(_, _)
Repeat(str, n) ==
  IF n = 0 THEN ""
  ELSE LET half == Repeat(str, n \div 2)
       IN  IF n % 2 = 0 THEN half \o half ELSE half \o half \o str

\* Addresses of the right shape, 320 and 321 characters long.
LongEmail(n) == Repeat("a", n - 12) \o "@example.com"

\* Entries that appear in lists of every length.
RecipientCells ==
  { "a@example.com", "not-an-email", "b@test.org", " c@test.org ", "" }

\* Entries that appear alone: shapes at the edge of the pattern and of the
\* length limit.
EdgeRecipientCells ==
  { "a@b", "a b@test.org", "a@b@c.de", "@test.org", "a@test.", "a@.org",
    "a@x.y.z", "a@test.o\tg", LongEmail(320), LongEmail(321) }

RecipientInputs ==
  { NoRecipients }
  \cup { RecipientsOf(q) : q \in SeqsUpTo(RecipientCells, MaxRecipients) }
  \cup { RecipientsOf(<<e>>) : e \in EdgeRecipientCells }
  \cup { RecipientsOf(<<"a@example.com", e>>) : e \in EdgeRecipientCells }

SendArguments ==
  { [subject |-> "Sub", body |-> "Body"],
    [subject |-> "Reminder for Mendez/Williams City Group",
     body    |-> "No upcoming events found."] }

\* Bot ids and texts handed to postGroupMeMessageWithBotId_; "" is also what
\* a missing argument reads as.
BotIdInputs == { "", "  ", "BOT123", " BOT123\n", "B\"1" }

PostTexts ==
  { "", " \n\t ", "Hello GroupMe", "  Hello GroupMe \n", "Line 1\nLine 2",
    "say \"hi\" \\ bye" }

NoSend == [valid |-> <<>>, invalid |-> <<>>, logs |-> <<>>, mail |-> <<>>]

NoText == [threw |-> FALSE, text |-> ""]

\* ------------------------------------------------------------------------
\* State
\* ------------------------------------------------------------------------
VARIABLES
  now,              \* the clock: what new Date() returns
  scriptProperties, \* PropertiesService.getScriptProperties()
  op,               \* the function that ran last, "idle" between runs
  optDate,          \* its base-date argument
  parsedGeneric,    \* what the runtime's new Date(s) returned in the run
  data,             \* the table it was given or read
  threw,            \* TRUE when the run ended with an exception
  retDate,          \* the Date returned by parseBaseDate_
  retIdx,           \* the index of the row returned by getNextUpcomingRow_
  retEmails,        \* the list returned by getEmailRecipients_
  timeZone,         \* what Session.getScriptTimeZone() returned in the run
  row,              \* the row argument of the classifier and the builders
  retBool,          \* the result of isNoGroupRow_
  retShort,         \* the text returned by getShortDate_
  retSubject,       \* the text returned by buildEmailSubject_
  retBody,          \* the result of buildEmailBody_: [threw, text]
  retMessage,       \* the result of buildGroupMeMessage_: [threw, text]
  recipients,       \* the recipients argument of sendEmailToRecipients_
  sendArgs,         \* its subject and body arguments
  retSend,          \* its two lists, its log lines and the emails it sent
  postArgs,         \* the arguments of postGroupMeMessageWithBotId_
  retPost,          \* its log lines and the requests it made
  opts,             \* the opts argument of performReminderSend_
  emailSheet,       \* the Emails sheet at the time of the run
  retRun,           \* what the run of performReminderSend_ did
  retReminder,      \* what composeReminder_ returned
  earlier           \* the call of composeReminder_ that returned last

\* The frame of the message functions.
messageVars ==
  << timeZone, row, retBool, retShort, retSubject, retBody, retMessage,
     recipients, sendArgs, retSend >>

\* The frame of the delivery functions and of the entry points.
runVars ==
  << postArgs, retPost, opts, emailSheet, retRun, retReminder, earlier >>

vars ==
  << now, scriptProperties, op, optDate, parsedGeneric, data, threw, retDate,
     retIdx, retEmails, messageVars, runVars >>

NoMessageCall ==
  /\ timeZone = "UTC"
  /\ row = NullRow
  /\ retBool = FALSE
  /\ retShort = ""
  /\ retSubject = ""
  /\ retBody = NoText
  /\ retMessage = NoText
  /\ recipients = NoRecipients
  /\ sendArgs = [subject |-> "", body |-> ""]
  /\ retSend = NoSend

NoRunCall ==
  /\ postArgs = [botId |-> "", text |-> ""]
  /\ retPost = NoPost
  /\ opts = NoOpts
  /\ emailSheet = <<>>
  /\ retRun = NoRun
  /\ retReminder = NoReminder

\* No call of composeReminder_ has returned yet.
NoEarlierCall ==
  [called |-> FALSE, row |-> NullRow, timeZone |-> "UTC",
   properties |-> DefaultProperties, reminder |-> NoReminder]

Idle ==
  /\ op = "idle"
  /\ optDate = Undefined
  /\ parsedGeneric = InvalidDate
  /\ data = UndefinedArray
  /\ threw = FALSE
  /\ retDate = InvalidDate
  /\ retIdx = NoRow
  /\ retEmails = <<>>
  /\ NoMessageCall
  /\ NoRunCall

Init ==
  /\ now = DateAt(RefDay, 0)
  /\ scriptProperties \in PropertySets
  /\ Idle
  /\ earlier = NoEarlierCall

\* ------------------------------------------------------------------------
\* Actions
\* ------------------------------------------------------------------------
\* Time passes between runs.
Tick ==
  /\ op = "idle"
  /\ \E c \in Clocks : c # now /\ DateGe(c, now) /\ now' = c
  /\ UNCHANGED << scriptProperties, op, optDate, parsedGeneric, data, threw,
                  retDate, retIdx, retEmails, messageVars >>
  /\ UNCHANGED runVars

\* Project Settings: a script property is set or deleted between runs.
SetProperties ==
  /\ op = "idle"
  /\ \E p \in PropertySets : p # scriptProperties /\ scriptProperties' = p
  /\ UNCHANGED << now, op, optDate, parsedGeneric, data, threw, retDate,
                  retIdx, retEmails, messageVars >>
  /\ UNCHANGED runVars

CallParseBaseDate ==
  /\ op = "idle"
  /\ \E v \in BaseDateInputs : \E g \in EngineOutcomes(v) :
       /\ optDate' = v
       /\ parsedGeneric' = g
       /\ retDate' = parseBaseDate_(v, now, g)
  /\ op' = "parseBaseDate_"
  /\ UNCHANGED << now, scriptProperties, data, threw, retIdx, retEmails,
                  messageVars >>
  /\ UNCHANGED runVars

CallGetNextUpcomingRow ==
  /\ op = "idle"
  /\ \E t \in ScheduleTables : \E v \in WindowBaseInputs :
       LET r == getNextUpcomingRow_(t, v, now, InvalidDate)
       IN  /\ data' = t
           /\ optDate' = v
           /\ threw' = r.threw
           /\ retIdx' = r.idx
  /\ op' = "getNextUpcomingRow_"
  /\ UNCHANGED << now, scriptProperties, parsedGeneric, retDate, retEmails,
                  messageVars >>
  /\ UNCHANGED runVars

CallGetEmailRecipients ==
  /\ op = "idle"
  /\ \E sheet \in EmailSheets :
       LET r == getEmailRecipients_(scriptProperties, sheet)
       IN  /\ data' = ArrayOf(sheet)
           /\ threw' = r.threw
           /\ retEmails' = r.emails
  /\ op' = "getEmailRecipients_"
  /\ UNCHANGED << now, scriptProperties, optDate, parsedGeneric, retDate, retIdx,
                  messageVars >>
  /\ UNCHANGED runVars

\* getShortDate_ applied to the base date parsed from a string mm/dd/yy.
CallShortDateOfBaseDate ==
  /\ op = "idle"
  /\ \E s \in ShortDateStrings : \E z \in TimeZones :
       LET parsed == parseBaseDate_(StrVal(s), now, InvalidDate)
       IN  /\ optDate' = StrVal(s)
           /\ retDate' = parsed
           /\ timeZone' = z
           /\ retShort' = getShortDate_(DateVal(parsed), z)
  /\ op' = "getShortDate_"
  /\ UNCHANGED << now, scriptProperties, parsedGeneric, data, threw, retIdx,
                  retEmails, row, retBool, retSubject, retBody, retMessage,
                  recipients, sendArgs, retSend >>
  /\ UNCHANGED runVars

CallIsNoGroupRow ==
  /\ op = "idle"
  /\ \E r \in BuilderRows :
       /\ row' = r
       /\ retBool' = isNoGroupRow_(r)
  /\ op' = "isNoGroupRow_"
  /\ UNCHANGED << now, scriptProperties, optDate, parsedGeneric, data, threw,
                  retDate, retIdx, retEmails, timeZone, retShort, retSubject,
                  retBody, retMessage, recipients, sendArgs, retSend >>
  /\ UNCHANGED runVars

\* The three builders, each called on the same row.
CallBuilders ==
  /\ op = "idle"
  /\ \E r \in BuilderRows : \E z \in TimeZones :
       /\ row' = r
       /\ timeZone' = z
       /\ retSubject' = buildEmailSubject_(r, z)
       /\ retBody' = buildEmailBody_(r, scriptProperties, z)
       /\ retMessage' = buildGroupMeMessage_(r, scriptProperties, z)
  /\ op' = "builders"
  /\ UNCHANGED << now, scriptProperties, optDate, parsedGeneric, data, threw,
                  retDate, retIdx, retEmails, retBool, retShort, recipients,
                  sendArgs, retSend >>
  /\ UNCHANGED runVars

CallSendEmailToRecipients ==
  /\ op = "idle"
  /\ \E list \in RecipientInputs : \E a \in SendArguments :
       /\ recipients' = list
       /\ sendArgs' = a
       /\ retSend' = sendEmailToRecipients_(a.subject, a.body, list)
  /\ op' = "sendEmailToRecipients_"
  /\ UNCHANGED << now, scriptProperties, optDate, parsedGeneric, data, threw,
                  retDate, retIdx, retEmails, timeZone, row, retBool, retShort,
                  retSubject, retBody, retMessage >>
  /\ UNCHANGED runVars

CallPostGroupMeMessageWithBotId ==
  /\ op = "idle"
  /\ \E b \in BotIdInputs : \E x \in PostTexts :
       /\ postArgs' = [botId |-> b, text |-> x]
       /\ retPost' = postGroupMeMessageWithBotId_(b, x)
  /\ op' = "postGroupMeMessageWithBotId_"
  /\ UNCHANGED << now, scriptProperties, optDate, parsedGeneric, data, threw,
                  retDate, retIdx, retEmails, messageVars, opts, emailSheet,
                  retRun, retReminder, earlier >>

\* The project's properties are edited between runs.
Configure ==
  /\ op = "idle"
  /\ \E p \in RunPropertySets : p # scriptProperties /\ scriptProperties' = p
  /\ UNCHANGED << now, op, optDate, parsedGeneric, data, threw, retDate,
                  retIdx, retEmails, messageVars, runVars >>

\* What a run leaves in the frame: the sheets and the time zone it read,
\* the opts it ran with and what it did.
RunFrame(name, o, schedule, emails, z, e, run) ==
  /\ op' = name
  /\ opts' = o
  /\ data' = ArrayOf(schedule)
  /\ emailSheet' = emails
  /\ timeZone' = z
  /\ parsedGeneric' = e
  /\ retRun' = run
  /\ threw' = run.threw
  /\ UNCHANGED << now, scriptProperties, optDate, retDate, retIdx, retEmails,
                  row, retBool, retShort, retSubject, retBody, retMessage,
                  recipients, sendArgs, retSend, postArgs, retPost,
                  retReminder, earlier >>

CallSendNotif ==
  /\ op = "idle"
  /\ \E schedule \in RunSchedules : \E emails \in RunEmailSheets :
       \E z \in TimeZones :
         RunFrame("sendNotif", ProdOpts, schedule, emails, z, InvalidDate,
                  sendNotif(scriptProperties, now, schedule, emails, z,
                            InvalidDate))

CallTestSendNotif ==
  /\ op = "idle"
  /\ \E schedule \in RunSchedules : \E emails \in RunEmailSheets :
       \E z \in TimeZones :
         \E e \in EngineOutcomes(StrVal(Chars(scriptProperties.TEST_BASE_DATE))) :
           RunFrame("testSendNotif", TestOpts(scriptProperties, now, e),
                    schedule, emails, z, e,
                    testSendNotif(scriptProperties, now, schedule, emails, z, e))

CallPerformReminderSend ==
  /\ op = "idle"
  /\ \E o \in RunOpts : \E schedule \in RunSchedules :
       \E emails \in RunEmailSheets : \E z \in TimeZones :
         RunFrame("performReminderSend_", o, schedule, emails, z, InvalidDate,
                  performReminderSend_(o, scriptProperties, now, schedule,
                                       emails, z, InvalidDate))

\* Apps Script editor: composeReminder_ run on a row, under the project's
\* properties and time zone of the moment.
ComposeRows ==
  { NullRow, RowOf(RunRow(3, "Desc", "Loc")), RowOf(RunRow(3, "Desc", " no group ")),
    RowOf(RunRow(4, "Later", "Loc")), RowOf(<<DateVal(DateAt(RefDay + 3, 0))>>) }

CallComposeReminder ==
  /\ op = "idle"
  /\ \E r \in ComposeRows : \E z \in TimeZones :
       LET composed == composeReminder_(r, scriptProperties, z)
       IN  /\ row' = r
           /\ timeZone' = z
           /\ retReminder' = composed
           /\ threw' = composed.threw
  /\ op' = "composeReminder_"
  /\ UNCHANGED << now, scriptProperties, optDate, parsedGeneric, data, retDate,
                  retIdx, retEmails, retBool, retShort, retSubject, retBody,
                  retMessage, recipients, sendArgs, retSend, postArgs, retPost,
                  opts, emailSheet, retRun, earlier >>

\* The call of composeReminder_ that is returning: what it was given, the
\* properties it ran under and what it returned.
ReturningCall ==
  [called |-> TRUE, row |-> row, timeZone |-> timeZone,
   properties |-> scriptProperties, reminder |-> retReminder]

\* The run is over; the next one starts from a clean frame.
Finish ==
  /\ op # "idle"
  /\ op' = "idle"
  /\ optDate' = Undefined
  /\ parsedGeneric' = InvalidDate
  /\ data' = UndefinedArray
  /\ threw' = FALSE
  /\ retDate' = InvalidDate
  /\ retIdx' = NoRow
  /\ retEmails' = <<>>
  /\ timeZone' = "UTC"
  /\ row' = NullRow
  /\ retBool' = FALSE
  /\ retShort' = ""
  /\ retSubject' = ""
  /\ retBody' = NoText
  /\ retMessage' = NoText
  /\ recipients' = NoRecipients
  /\ sendArgs' = [subject |-> "", body |-> ""]
  /\ retSend' = NoSend
  /\ postArgs' = [botId |-> "", text |-> ""]
  /\ retPost' = NoPost
  /\ opts' = NoOpts
  /\ emailSheet' = <<>>
  /\ retRun' = NoRun
  /\ retReminder' = NoReminder
  /\ earlier' = IF op = "composeReminder_" THEN ReturningCall ELSE earlier
  /\ UNCHANGED << now, scriptProperties >>

Next ==
  \/ Tick
  \/ SetProperties
  \/ CallParseBaseDate
  \/ CallGetNextUpcomingRow
  \/ CallGetEmailRecipients
  \/ CallShortDateOfBaseDate
  \/ CallIsNoGroupRow
  \/ CallBuilders
  \/ CallSendEmailToRecipients
  \/ CallPostGroupMeMessageWithBotId
  \/ Finish

Spec == Init /\ [][Next]_vars

\* The entry points, under every configuration of the project.
RunInit ==
  /\ now = DateAt(RefDay, 0)
  /\ scriptProperties \in RunPropertySets
  /\ Idle
  /\ earlier = NoEarlierCall

RunNext ==
  \/ Tick
  \/ Configure
  \/ CallSendNotif
  \/ CallTestSendNotif
  \/ CallPerformReminderSend
  \/ Finish

RunSpec == RunInit /\ [][RunNext]_vars

\* composeReminder_ called again and again while the properties change.
ComposeNext ==
  \/ Configure
  \/ CallComposeReminder
  \/ Finish

ComposeSpec == RunInit /\ [][ComposeNext]_vars

\* ------------------------------------------------------------------------
\* Vocabulary of the properties
\* ------------------------------------------------------------------------
Selected == op = "getNextUpcomingRow_" /\ data.isArray

Parsed == op = "parseBaseDate_"

\* The base date of the run, and the date of the row at JavaScript index i.
Today == parseBaseDate_(optDate, now, parsedGeneric)

RowDate(i) == NewDate(data.rows[i + 1][1], parsedGeneric)

DataRows == 1..(Len(data.rows) - 1)

Earlier(a, b) == a.day < b.day \/ (a.day = b.day /\ a.ms < b.ms)

\* baseDate <= d <= maxDate on the time values.
InWindow(i) ==
  /\ RowDate(i).valid
  /\ Today.valid
  /\ ~Earlier(RowDate(i), Today)
  /\ ~Earlier(DateAt(Today.day + 7, Today.ms), RowDate(i))

\* The same window counted in calendar days, whatever the time of day.
InCalendarWindow(i) ==
  /\ RowDate(i).valid
  /\ Today.valid
  /\ RowDate(i).day >= Today.day
  /\ RowDate(i).day <= Today.day + 7

Midday == DateAt(now.day, 12 * 3600000)

\* ------------------------------------------------------------------------
\* C1
\* ------------------------------------------------------------------------
\* C1: getNextUpcomingRow_ returns the row of lowest index >= 1 whose date
\* lies in the window [base date, base date + 7 days], and null only when no
\* such row exists; a later row with an earlier date does not displace it
\* (table order wins, not date order).
C1_FirstInTableOrder ==
  Selected =>
    /\ ~threw
    /\ retIdx = NoRow => \A i \in DataRows : ~InWindow(i)
    /\ retIdx # NoRow =>
         /\ retIdx \in DataRows
         /\ InWindow(retIdx)
         /\ \A i \in DataRows : i < retIdx => ~InWindow(i)

\* Two rows in the window, the later one with the earlier date, and the
\* earlier row returned.
C1_Witness ==
  /\ Selected
  /\ retIdx # NoRow
  /\ \E j \in DataRows :
       /\ retIdx < j
       /\ InWindow(j)
       /\ Earlier(RowDate(j), RowDate(retIdx))

\* ------------------------------------------------------------------------
\* C2
\* ------------------------------------------------------------------------
\* C2: the result of getNextUpcomingRow_ is null or a row whose date is not
\* on a calendar day before the base date nor on one after base date + 7.
C2_ResultInsideWindow ==
  (Selected /\ retIdx # NoRow) =>
    /\ retIdx \in 0..(Len(data.rows) - 1)
    /\ RowDate(retIdx).valid
    /\ Today.valid
    /\ RowDate(retIdx).day >= Today.day
    /\ RowDate(retIdx).day <= Today.day + 7

\* A row on the last calendar day of the window is returned although the
\* table also holds rows of the day before the base date and of day + 8.
C2_Witness ==
  /\ Selected
  /\ retIdx # NoRow
  /\ RowDate(retIdx).day = Today.day + 7
  /\ \E i \in DataRows : RowDate(i).valid /\ RowDate(i).day = Today.day - 1
  /\ \E i \in DataRows : RowDate(i).valid /\ RowDate(i).day = Today.day + 8

C4_NullWhenNothingInWindow ==
  (Selected /\ \A i \in DataRows : ~InCalendarWindow(i)) =>
    (~threw /\ retIdx = NoRow)

\* The table of the scenario: exactly two data rows, dated the day before
\* the base date and 8 days after it.
C4_Witness ==
  /\ Selected
  /\ Today.valid
  /\ Len(data.rows) = 3
  /\ RowDate(1).valid /\ RowDate(1).day = Today.day - 1
  /\ RowDate(2).valid /\ RowDate(2).day = Today.day + 8
  /\ ~threw
  /\ retIdx = NoRow

\* ------------------------------------------------------------------------
\* C5
\* ------------------------------------------------------------------------
NonEmptyCell(c) == c # ""

ColumnA(rows) == [i \in 1..Len(rows) |-> rows[i][1]]

\* C5: row 0 is never returned by getNextUpcomingRow_, even when its first
\* cell is a date inside the window, and the first row of the Emails sheet
\* is never among the recipients of getEmailRecipients_: they are the
\* non-empty cells of column A below the header, in order.
C5_HeaderNeverData ==
  /\ Selected => retIdx # 0
  /\ (op = "getEmailRecipients_" /\ ~threw) =>
       retEmails =
         (IF data.rows = <<>> THEN <<>>
          ELSE SelectSeq(Tail(ColumnA(data.rows)), NonEmptyCell))

\* The header's first cell is a date inside the window and no data row is:
\* the header is the only candidate, and null is returned.
C5_Witness ==
  /\ Selected
  /\ Len(data.rows) >= 2
  /\ InWindow(0)
  /\ \A i \in DataRows : ~InWindow(i)
  /\ retIdx = NoRow

\* ------------------------------------------------------------------------
\* C6
\* ------------------------------------------------------------------------
\* C6: a data row whose date cell cannot be converted to a date (empty or
\* unparseable text) is outside the window: it is never returned, the call
\* does not throw on it, and the scan goes on, so that an in-window row
\* preceded only by such rows is returned.
C6_UnconvertibleRowSkipped ==
  Selected =>
    /\ ~threw
    /\ retIdx # NoRow => RowDate(retIdx).valid
    /\ \A i \in DataRows :
         (InWindow(i) /\ \A j \in DataRows : j < i => ~RowDate(j).valid)
         => retIdx = i

\* An empty cell and a text cell come first, the in-window row after them
\* is returned.
C6_Witness ==
  /\ Selected
  /\ retIdx = 3
  /\ data.rows[2][1] = StrVal(<<>>)
  /\ data.rows[3][1] = StrVal(<<"T", "B", "D">>)

\* ------------------------------------------------------------------------
\* C7
\* ------------------------------------------------------------------------
\* C7: parseBaseDate_ returns a valid (non-NaN) calendar day for every
\* input: undefined, null, empty or blank string, any Date object including
\* an invalid Date, a number, and any string.
C7_AlwaysValidDay == Parsed => retDate.valid

\* ------------------------------------------------------------------------
\* C8
\* ------------------------------------------------------------------------
\* C8: on every branch of parseBaseDate_ the returned value has the time of
\* day 12:00:00.000, never midnight.
C8_AlwaysMidday ==
  Parsed => (retDate.valid /\ retDate.ms = 12 * 3600000 /\ retDate.ms # 0)

\* ------------------------------------------------------------------------
\* C9
\* ------------------------------------------------------------------------
ValidMonthDay(y, m, d) == m \in 1..12 /\ d >= 1 /\ d <= DaysInMonth(y, m)

CivilOf(d) == CivilFromDays(d.day)

\* C9: a string m/d/y or m-d-y with a valid month and day gives the calendar
\* day (year, m, d), year = 2000 + y when y < 100 and y otherwise; a string
\* yyyy-mm-dd gives the calendar day (yyyy, mm, dd) and is never captured by
\* the month-first pattern.
C9_PatternsGiveTheWrittenDay ==
  (Parsed /\ optDate.t = "string") =>
    /\ \A ms \in MonthStrs, ds \in DayStrs, ys \in YearStrs, a, b \in {"/", "-"} :
         LET m == parseInt(ms)
             d == parseInt(ds)
             y == parseInt(ys)
             year == IF y < 100 THEN 2000 + y ELSE y
         IN  (/\ optDate.s = ms \o <<a>> \o ds \o <<b>> \o ys
              /\ a = b
              /\ ValidMonthDay(year, m, d))
             => (retDate.valid /\
                 CivilOf(retDate) = [year |-> year, month |-> m, date |-> d])
    /\ \A ys \in IsoYearStrs, ms \in IsoMonthStrs, ds \in IsoDayStrs :
         LET y == parseInt(ys)
             m == parseInt(ms)
             d == parseInt(ds)
         IN  (/\ optDate.s = ys \o <<"-">> \o ms \o <<"-">> \o ds
              /\ ValidMonthDay(y, m, d))
             => (/\ MatchMonthFirst(optDate.s) = <<>>
                 /\ retDate.valid
                 /\ CivilOf(retDate) = [year |-> y, month |-> m, date |-> d])

\* ------------------------------------------------------------------------
\* C10
\* ------------------------------------------------------------------------
BlankString(v) == v.t = "string" /\ \A i \in 1..Len(v.s) : IsSpace(v.s[i])

\* The run's result is the same whatever the clock reads.
ClockFree ==
  \A c \in Clocks : parseBaseDate_(optDate, c, parsedGeneric) = retDate

\* C10 (as stated): the current day at the fixed hour is returned when the
\* input is undefined, null, empty or whitespace-only, and when it is a
\* non-empty string that matches neither pattern and fails the generic parse;
\* in every other case the result does not depend on the clock.
C10_ClockCasesAsStated ==
  Parsed =>
    IF \/ optDate.t \in {"undefined", "null"}
       \/ BlankString(optDate)
       \/ (optDate.t = "string" /\ ReachesGenericParse(optDate)
           /\ ~parsedGeneric.valid)
    THEN retDate = Midday
    ELSE ClockFree

\* C10 (amended): the current day at the fixed hour is returned when the
\* input is falsy (undefined, null, the empty string, the number 0) or a
\* whitespace-only string, and when the input, a string or a number, gives a
\* non-empty trimmed text that matches neither pattern and fails the generic
\* parse; in every other case the result does not depend on the clock.
C10_ClockCases ==
  Parsed =>
    IF \/ optDate.t \in {"undefined", "null"}
       \/ BlankString(optDate)
       \/ (optDate.t = "number" /\ optDate.n = 0)
       \/ (optDate.t \in {"string", "number"} /\ ReachesGenericParse(optDate)
           /\ ~parsedGeneric.valid)
    THEN retDate = Midday
    ELSE ClockFree

\* The number 0 was parsed while the clock read a day other than the
\* reference day's: the result is that day at 12:00.
C10_Witness ==
  /\ Parsed
  /\ optDate = NumVal(0)
  /\ now.day = RefDay + 1
  /\ retDate = DateAt(RefDay + 1, 12 * 3600000)

\* ------------------------------------------------------------------------
\* C11
\* ------------------------------------------------------------------------
\* The parts of a string between its "/" characters.
SlashPositions(s) == {i \in 1..Len(s) : s[i] = "/"}

MonthPart(s) == SubSeq(s, 1, MinOf(SlashPositions(s)) - 1)

DayPart(s) ==
  SubSeq(s, MinOf(SlashPositions(s)) + 1, MaxOf(SlashPositions(s)) - 1)

\* "mm-dd" of the month and day a string mm/dd/yy is written with.
WrittenShortDate(s) ==
  Pad2(parseInt(MonthPart(s))) \o "-" \o Pad2(parseInt(DayPart(s)))

\* C11: for every string mm/dd/yy with a valid month and day, in every time
\* zone of the script, getShortDate_(parseBaseDate_(s)) is the zero-padded
\* "mm-dd" the string was written with: no date of the year shifts by a day,
\* the days around a daylight-saving change included.
C11_ShortDateOfParsedString ==
  op = "getShortDate_" => retShort = WrittenShortDate(optDate.s)

\* The day daylight saving starts in America/Denver, read back unshifted.
C11_Witness ==
  /\ op = "getShortDate_"
  /\ timeZone = "America/Denver"
  /\ optDate.s = Chars("03/09/25")
  /\ retShort = "03-09"

\* ------------------------------------------------------------------------
\* C12
\* ------------------------------------------------------------------------
\* The text without the spaces at its two ends, as characters.
RECURSIVE Stripped(_)
Stripped(cs) ==
  IF Len(cs) = 0 THEN cs
  ELSE IF IsSpace(cs[1]) THEN Stripped(SubSeq(cs, 2, Len(cs)))
  ELSE IF IsSpace(cs[Len(cs)]) THEN Stripped(SubSeq(cs, 1, Len(cs) - 1))
  ELSE cs

\* The same text up to the case of its letters.
SameIgnoringCase(cs, str) ==
  /\ Len(cs) = Len(str)
  /\ \A i \in 1..Len(cs) : LowerChar(cs[i]) = LowerChar(SubSeq(str, i, i))

\* The row has a location that reads "no group".
LocationIsNoGroup(r) ==
  /\ ~r.isNull
  /\ Len(r.k) > 2
  /\ SameIgnoringCase(Stripped(Chars(r.k[3])), "no group")

\* C12: isNoGroupRow_ is false for a null row; for a row it is true exactly
\* when the location, trimmed and lower-cased, is "no group": true for
\* "No Group", " no group " and "NO GROUP", false for "No Groupz" and for an
\* empty or missing location.
C12_NoGroupClassification ==
  op = "isNoGroupRow_" =>
    /\ retBool = LocationIsNoGroup(row)
    /\ row.isNull => ~retBool
    /\ (~row.isNull /\ Len(row.k) <= 2) => ~retBool
    /\ (~row.isNull /\ Len(row.k) > 2) =>
         /\ row.k[3] \in {"No Group", " no group ", "NO GROUP"} => retBool
         /\ row.k[3] \in {"No Groupz", ""} => ~retBool

\* A location in lower case between spaces is classified as no-group.
C12_Witness ==
  /\ op = "isNoGroupRow_"
  /\ ~row.isNull
  /\ Len(row.k) > 2
  /\ row.k[3] = " no group "
  /\ retBool

\* ------------------------------------------------------------------------
\* C13 - C19: the three message builders on one row
\* ------------------------------------------------------------------------
NormalRow == ~row.isNull /\ ~LocationIsNoGroup(row)

\* The local day of the row's date, written MM-dd.
RowShortDate ==
  LET civil == CivilFromDays(row.k[1].date.day)
  IN  Pad2(civil.month) \o "-" \o Pad2(civil.date)

\* The local day of the row's date, written in long form.
RowLongDate ==
  LET civil == CivilFromDays(row.k[1].date.day)
  IN  DayNames[Weekday(row.k[1].date.day) + 1] \o ", "
      \o MonthNames[civil.month] \o " " \o Implode(NatToStr(civil.date))
      \o ", " \o Pad4(civil.year)

\* The first index at which sub occurs in text from index from on; 0 if it
\* does not occur.
IndexFrom(text, sub, from) ==
  LET hits == {i \in from..(Len(text) - Len(sub) + 1) :
                 SubSeq(text, i, i + Len(sub) - 1) = sub}
  IN  IF hits = {} THEN 0 ELSE MinOf(hits)

Contains(text, sub) == IndexFrom(text, sub, 1) > 0

\* The text up to its first line break.
FirstLine(text) ==
  IF Contains(text, "\n") THEN SubSeq(text, 1, IndexFrom(text, "\n", 1) - 1)
  ELSE text

\* The parts of a text between its line breaks.
RECURSIVE Lines(_)
Lines(text) ==
  IF Contains(text, "\n")
  THEN <<FirstLine(text)>>
       \o Lines(SubSeq(text, IndexFrom(text, "\n", 1) + 1, Len(text)))
  ELSE <<text>>

SignupUrl ==
  "https://docs.google.com/spreadsheets/d/" \o scriptProperties.SHEET_ID
  \o "/edit?usp=sharing"

\* C13: buildEmailSubject_ returns one of three forms: "Reminder for
\* Mendez/Williams City Group", with no date, for a null row; "NO GROUP for
\* Mendez/Williams City Group on MM-dd" for a no-group row; "Reminder for
\* Mendez/Williams City Group on MM-dd" for any other row, MM-dd being
\* getShortDate_ of the row's date, which is the day of that date.
C13_SubjectForms ==
  op = "builders" =>
    /\ row.isNull => retSubject = "Reminder for Mendez/Williams City Group"
    /\ LocationIsNoGroup(row) =>
         /\ retSubject = "NO GROUP for Mendez/Williams City Group on "
                         \o getShortDate_(DateCell(row.k), timeZone)
         /\ retSubject = "NO GROUP for Mendez/Williams City Group on "
                         \o RowShortDate
    /\ NormalRow =>
         /\ retSubject = "Reminder for Mendez/Williams City Group on "
                         \o getShortDate_(DateCell(row.k), timeZone)
         /\ retSubject = "Reminder for Mendez/Williams City Group on "
                         \o RowShortDate

\* A no-group row dated 2025-12-17 gets the NO GROUP subject.
C13_Witness ==
  /\ op = "builders"
  /\ LocationIsNoGroup(row)
  /\ retSubject = "NO GROUP for Mendez/Williams City Group on 12-17"

\* C14: for a no-group row the subject, the email body and the GroupMe
\* message are one and the same single line "NO GROUP for Mendez/Williams
\* City Group on MM-dd", and it holds no sign-up URL.
C14_NoGroupTextsIdentical ==
  (op = "builders" /\ LocationIsNoGroup(row)) =>
    /\ ~retBody.threw
    /\ ~retMessage.threw
    /\ retSubject = "NO GROUP for Mendez/Williams City Group on " \o RowShortDate
    /\ retBody.text = retSubject
    /\ retMessage.text = retSubject
    /\ ~Contains(retSubject, "\n")
    /\ ~Contains(retSubject, "http")
    /\ ~Contains(retSubject, "docs.google.com")

\* The three texts of a no-group row, with the sheet configured.
C14_Witness ==
  /\ op = "builders"
  /\ LocationIsNoGroup(row)
  /\ scriptProperties.SHEET_ID # ""
  /\ retBody.text = "NO GROUP for Mendez/Williams City Group on 12-17"
  /\ retMessage.text = "NO GROUP for Mendez/Williams City Group on 12-17"

\* C15 as stated: for a null row the subject, the email body and the
\* GroupMe message are the identical literal text.
C15_NullTextsIdentical ==
  (op = "builders" /\ row.isNull) =>
    /\ retBody.text = retSubject
    /\ retMessage.text = retSubject

\* C15, amended: for a null row the subject and the GroupMe message are the
\* same literal "Reminder for Mendez/Williams City Group", and the email
\* body is the literal "No upcoming events found."; none of them throws or
\* depends on the row, the time zone or the script properties.
C15_NullTexts ==
  (op = "builders" /\ row.isNull) =>
    /\ retSubject = "Reminder for Mendez/Williams City Group"
    /\ ~retMessage.threw
    /\ retMessage.text = retSubject
    /\ ~retBody.threw
    /\ retBody.text = "No upcoming events found."

\* The builders ran on null with no sheet configured.
C15_Witness ==
  /\ op = "builders"
  /\ row.isNull
  /\ scriptProperties.SHEET_ID = ""
  /\ retMessage.text = "Reminder for Mendez/Williams City Group"
  /\ retBody.text = "No upcoming events found."

\* C16: for a row that is neither null nor no-group, the first line of the
\* GroupMe message is the email subject, so both carry the same MM-dd (the
\* message exists when SHEET_ID is set; without it the builder throws).
C16_FirstLineIsSubject ==
  (op = "builders" /\ NormalRow) =>
    /\ retMessage.threw <=> scriptProperties.SHEET_ID = ""
    /\ ~retMessage.threw =>
         /\ FirstLine(retMessage.text) = retSubject
         /\ FirstLine(retMessage.text) =
              "Reminder for Mendez/Williams City Group on " \o RowShortDate

\* A message of several lines whose first line is the subject.
C16_Witness ==
  /\ op = "builders"
  /\ NormalRow
  /\ ~retMessage.threw
  /\ Len(Lines(retMessage.text)) > 1
  /\ FirstLine(retMessage.text) = retSubject
  /\ retSubject = "Reminder for Mendez/Williams City Group on 01-05"

\* The six parts of the GroupMe message of a row.
MessageParts ==
  << "Reminder for Mendez/Williams City Group on " \o RowShortDate,
     "Description: " \o Interpolate(row.k, 1),
     "Location: " \o Interpolate(row.k, 2),
     "Food Theme: " \o Interpolate(row.k, 3),
     "Childcare Duty: " \o Interpolate(row.k, 4),
     "Sign up: " \o SignupUrl >>

\* The row's values hold no "<".
PlainRow == \A j \in 1..4 : ~Contains(Interpolate(row.k, j), "<")

\* C17: for a row that is neither null nor no-group, the GroupMe message is
\* six parts separated by line breaks, in this order: the reminder line
\* with the short date, "Description: ", "Location: ", "Food Theme: " and
\* "Childcare Duty: " each followed by the row's value, and "Sign up: "
\* followed by the URL; the builder adds no HTML markup of its own.
C17_SixPlainParts ==
  (op = "builders" /\ NormalRow /\ ~retMessage.threw) =>
    /\ Lines(retMessage.text) = MessageParts
    /\ Len(Lines(retMessage.text)) = 6
    /\ PlainRow => ~Contains(retMessage.text, "<")

\* The message of the row of 2025-12-17 with plain values.
C17_Witness ==
  /\ op = "builders"
  /\ NormalRow
  /\ PlainRow
  /\ ~retMessage.threw
  /\ retMessage.text =
       "Reminder for Mendez/Williams City Group on 12-17\nDescription: Desc\n"
       \o "Location: Loc\nFood Theme: Food\nChildcare Duty: Duty\n"
       \o "Sign up: https://docs.google.com/spreadsheets/d/SHEET123/edit?usp=sharing"

\* C18: for a row whose location is not "No Group", the GroupMe message
\* includes a subject line, the long-form date, the details and the sign-up
\* link.
C18_MessageHasLongDate ==
  (op = "builders" /\ NormalRow /\ ~retMessage.threw) =>
    /\ FirstLine(retMessage.text) = retSubject
    /\ Contains(retMessage.text, RowLongDate)
    /\ \A j \in 1..4 : Contains(retMessage.text, Interpolate(row.k, j))
    /\ Contains(retMessage.text, SignupUrl)

\* The position of each piece of the email body, each sought after the one
\* before it; 0 from the first piece that is missing.
RECURSIVE PositionsInOrder(_, _, _)
PositionsInOrder(text, pieces, from) ==
  IF pieces = <<>> THEN <<>>
  ELSE LET at == IF from = 0 THEN 0 ELSE IndexFrom(text, Head(pieces), from)
       IN  <<at>> \o PositionsInOrder(text, Tail(pieces),
                                      IF at = 0 THEN 0
                                      ELSE at + Len(Head(pieces)))

BodyPieces ==
  << RowLongDate,
     "Description:</strong> " \o Interpolate(row.k, 1) \o "<",
     "Location:</strong> " \o Interpolate(row.k, 2) \o "<",
     "Food Theme:</strong> " \o Interpolate(row.k, 3) \o "<",
     "Childcare Duty:</strong> " \o Interpolate(row.k, 4) \o "<",
     "<a href=\"" \o SignupUrl \o "\">" >>

\* C19: for a row that is neither null nor no-group, the email body holds
\* the long-form date of the row's date, then the row's values 1 to 4 as
\* they are, unescaped, under the labels Description, Location, Food Theme
\* and Childcare Duty in that order, then a link to
\* "https://docs.google.com/spreadsheets/d/" + SHEET_ID + "/edit?usp=sharing"
\* (the body exists when SHEET_ID is set; without it the builder throws).
C19_BodyContents ==
  (op = "builders" /\ NormalRow) =>
    /\ retBody.threw <=> scriptProperties.SHEET_ID = ""
    /\ ~retBody.threw =>
         \A i \in 1..Len(BodyPieces) :
           PositionsInOrder(retBody.text, BodyPieces, 1)[i] > 0

\* A body with a value that holds markup, inserted as it is.
C19_Witness ==
  /\ op = "builders"
  /\ NormalRow
  /\ ~retBody.threw
  /\ Len(row.k) = 5
  /\ row.k[2] = "<b>Bring & share</b>"
  /\ Contains(retBody.text, "Monday, January 5, 2026")
  /\ Contains(retBody.text, "Description:</strong> <b>Bring & share</b></p>")

\* ------------------------------------------------------------------------
\* C20
\* ------------------------------------------------------------------------
\* An address: not empty, at most 320 characters, no white space, one "@"
\* with text before it, and after it a "." with text on both sides.
WellFormedAddress(e) ==
  /\ Len(e) > 0
  /\ Len(e) <= 320
  /\ LET cs  == Chars(e)
         ats == {i \in 1..Len(cs) : cs[i] = "@"}
     IN  /\ \A i \in 1..Len(cs) : ~IsRegexSpace(cs[i])
         /\ Cardinality(ats) = 1
         /\ \A a \in ats :
              /\ a > 1
              /\ \E p \in (a + 1)..Len(cs) :
                   cs[p] = "." /\ p > a + 1 /\ p < Len(cs)

MalformedAddress(e) == ~WellFormedAddress(e)

\* The entries as the function reads them: each one trimmed.
Trimmed == [i \in 1..Len(recipients.items) |-> trimText(recipients.items[i])]

\* C20: sendEmailToRecipients_ splits the trimmed recipients into a valid
\* and an invalid list, each in input order and the two together holding
\* every entry exactly once; an entry is valid exactly when it is not
\* empty, at most 320 characters long and shaped local@domain.tld with no
\* white space and one "@".
C20_RecipientsPartitioned ==
  (op = "sendEmailToRecipients_" /\ recipients.isArray
     /\ Len(recipients.items) > 0) =>
    /\ retSend.valid = SelectSeq(Trimmed, WellFormedAddress)
    /\ retSend.invalid = SelectSeq(Trimmed, MalformedAddress)
    /\ Len(retSend.valid) + Len(retSend.invalid) = Len(recipients.items)

\* The list of the example, split as the example says.
C20_Witness ==
  /\ op = "sendEmailToRecipients_"
  /\ recipients = RecipientsOf(<<"a@example.com", "not-an-email", "b@test.org">>)
  /\ retSend.valid = <<"a@example.com", "b@test.org">>
  /\ retSend.invalid = <<"not-an-email">>

\* ------------------------------------------------------------------------
\* C21
\* ------------------------------------------------------------------------
\* The parts of a text between its commas.
RECURSIVE CommaParts(_)
CommaParts(text) ==
  IF Contains(text, ",")
  THEN <<SubSeq(text, 1, IndexFrom(text, ",", 1) - 1)>>
       \o CommaParts(SubSeq(text, IndexFrom(text, ",", 1) + 1, Len(text)))
  ELSE <<text>>

\* The well-formed entries of the recipient list, in input order.
ValidEntries == SelectSeq(Trimmed, WellFormedAddress)

\* C21: one call of sendEmailToRecipients_ sends at most one email: none,
\* with a log line, when the list is missing, empty or has no valid
\* address; otherwise exactly one, addressed to the valid addresses joined
\* by commas in input order, with the given subject and HTML body and no
\* other field (no bcc); no invalid entry is among the addresses of "to".
C21_AtMostOneEmail ==
  op = "sendEmailToRecipients_" =>
    /\ Len(retSend.mail) <= 1
    /\ ValidEntries = <<>> =>
         /\ retSend.mail = <<>>
         /\ Len(retSend.logs) > 0
    /\ ValidEntries # <<>> =>
         /\ Len(retSend.mail) = 1
         /\ DOMAIN retSend.mail[1] = {"to", "subject", "htmlBody"}
         /\ retSend.mail[1].to = Join(ValidEntries, ",")
         /\ retSend.mail[1].subject = sendArgs.subject
         /\ retSend.mail[1].htmlBody = sendArgs.body
         /\ CommaParts(retSend.mail[1].to) = ValidEntries
         /\ \A i \in 1..Len(Trimmed) :
              MalformedAddress(Trimmed[i]) =>
                \A j \in 1..Len(ValidEntries) :
                  CommaParts(retSend.mail[1].to)[j] # Trimmed[i]

\* One email to the two valid addresses of a list with an invalid entry
\* between them.
C21_Witness ==
  /\ op = "sendEmailToRecipients_"
  /\ recipients = RecipientsOf(<<"a@example.com", "not-an-email", " c@test.org ">>)
  /\ Len(retSend.mail) = 1
  /\ retSend.mail[1].to = "a@example.com,c@test.org"
  /\ retSend.mail[1].subject = sendArgs.subject

\* ------------------------------------------------------------------------
\* C22
\* ------------------------------------------------------------------------
\* The character an escape of a JSON string stands for.
JsonEscaped(c) ==
  CASE c = "n" -> "\n"
    [] c = "r" -> "\r"
    [] c = "t" -> "\t"
    [] OTHER -> c

\* The number of backslashes that end just before index i.
RECURSIVE BackslashesBefore(_, _)
BackslashesBefore(cs, i) ==
  IF i > 1 /\ cs[i - 1] = "\\" THEN 1 + BackslashesBefore(cs, i - 1) ELSE 0

\* Index i holds a character as it is, or the one an escape stands for.
Unescaped(cs, i) == BackslashesBefore(cs, i) % 2 = 0

\* The text of the JSON string that ends before the closing quote at index
\* close, its first character after the opening quote being cs[i].
JsonText(cs, i, close) ==
  Implode([k \in 1..(close - i) |->
             IF ~Unescaped(cs, i + k - 1) THEN JsonEscaped(cs[i + k - 1])
             ELSE IF cs[i + k - 1] = "\\" THEN ""
             ELSE cs[i + k - 1]])

ClosingQuotes(cs, i) ==
  {q \in i..Len(cs) : cs[q] = "\"" /\ Unescaped(cs, q)}

\* The JSON string whose first character after the opening quote is cs[i]:
\* the text it stands for and the index after its closing quote.
ReadJsonString(cs, i) ==
  IF ClosingQuotes(cs, i) = {} THEN [ok |-> FALSE, value |-> "", next |-> i]
  ELSE [ok    |-> TRUE,
        value |-> JsonText(cs, i, MinOf(ClosingQuotes(cs, i))),
        next  |-> MinOf(ClosingQuotes(cs, i)) + 1]

\* JSON.parse of the text of an object with the members bot_id and text.
ParsePayloadAt(cs, bot) ==
  LET m == Len(",\"text\":\"")
  IN  IF /\ bot.ok
         /\ bot.next + m <= Len(cs)
         /\ Implode(SubSeq(cs, bot.next, bot.next + m - 1)) = ",\"text\":\""
      THEN LET txt == ReadJsonString(cs, bot.next + m)
           IN  [ok     |-> txt.ok /\ txt.next = Len(cs) /\ cs[Len(cs)] = "}",
                bot_id |-> bot.value,
                text   |-> txt.value]
      ELSE [ok |-> FALSE, bot_id |-> "", text |-> ""]

ParsePayload(str) ==
  LET n == Len("{\"bot_id\":\"")
  IN  IF Len(str) > n /\ SubSeq(str, 1, n) = "{\"bot_id\":\""
      THEN ParsePayloadAt(Chars(str), ReadJsonString(Chars(str), n + 1))
      ELSE [ok |-> FALSE, bot_id |-> "", text |-> ""]

\* The text has a character that is not white space.
NotBlank(str) == \E i \in 1..Len(str) : ~IsRegexSpace(SubSeq(str, i, i))

\* C22: postGroupMeMessageWithBotId_ makes no request, and logs, when the
\* text is empty or white space only or the bot id is empty or white space
\* only; otherwise it makes exactly one POST to
\* https://api.groupme.com/v3/bots/post whose JSON payload is the object
\* with bot_id the trimmed bot id and text the trimmed text.
C22_PostOnlyWithTextAndBot ==
  op = "postGroupMeMessageWithBotId_" =>
    /\ (~NotBlank(postArgs.text) \/ ~NotBlank(postArgs.botId)) =>
         /\ retPost.fetches = <<>>
         /\ Len(retPost.logs) = 1
    /\ (NotBlank(postArgs.text) /\ NotBlank(postArgs.botId)) =>
         /\ Len(retPost.fetches) = 1
         /\ retPost.fetches[1].url = "https://api.groupme.com/v3/bots/post"
         /\ retPost.fetches[1].method = "post"
         /\ retPost.fetches[1].contentType = "application/json"
         /\ ParsePayload(retPost.fetches[1].payload) =
              [ok     |-> TRUE,
               bot_id |-> Implode(Stripped(Chars(postArgs.botId))),
               text   |-> Implode(Stripped(Chars(postArgs.text)))]

\* A padded bot id and a padded text, posted trimmed.
C22_Witness ==
  /\ op = "postGroupMeMessageWithBotId_"
  /\ postArgs = [botId |-> " BOT123\n", text |-> "  Hello GroupMe \n"]
  /\ Len(retPost.fetches) = 1
  /\ retPost.fetches[1].payload = "{\"bot_id\":\"BOT123\",\"text\":\"Hello GroupMe\"}"

\* ------------------------------------------------------------------------
\* C23 - C28: runs of the entry points
\* ------------------------------------------------------------------------
IsRun == op \in {"sendNotif", "testSendNotif", "performReminderSend_"}

\* The addresses of the emails the run sent.
Addressees ==
  UNION { {CommaParts(retRun.mail[i].to)[j] :
             j \in 1..Len(CommaParts(retRun.mail[i].to))} :
          i \in 1..Len(retRun.mail) }

\* The bot ids of the posts the run made.
PostedBotIds ==
  { ParsePayload(retRun.fetches[i].payload).bot_id : i \in 1..Len(retRun.fetches) }

\* Column A of the Emails sheet below its header, trimmed.
SheetAddresses ==
  { Implode(Stripped(Chars(emailSheet[i][1]))) : i \in 2..Len(emailSheet) }

\* The entries of TEST_EMAIL_RECIPIENTS, trimmed.
TestAddresses ==
  { Implode(Stripped(Chars(CommaParts(scriptProperties.TEST_EMAIL_RECIPIENTS)[j]))) :
      j \in 1..Len(CommaParts(scriptProperties.TEST_EMAIL_RECIPIENTS)) }

\* Every delivery of the run went to the production set, or to the test set.
OnlyProd ==
  /\ Addressees \subseteq SheetAddresses
  /\ PostedBotIds \subseteq {scriptProperties.GROUPME_BOT_ID}

OnlyTest ==
  /\ Addressees \subseteq TestAddresses
  /\ PostedBotIds \subseteq {scriptProperties.TEST_GROUPME_BOT_ID}
  /\ \A i \in 1..Len(retRun.reads) : retRun.reads[i] # "Emails"

\* C23: a run of testSendNotif addresses no email to a recipient of the
\* Emails sheet and posts with no bot but TEST_GROUPME_BOT_ID; a run of
\* sendNotif uses only the Emails sheet and GROUPME_BOT_ID; a run of
\* performReminderSend_ with a missing or unrecognised mode never delivers
\* to both sets.
C23_ModesKeptApart ==
  /\ op = "testSendNotif" =>
       /\ OnlyTest
       /\ Addressees \cap SheetAddresses = {}
       /\ scriptProperties.GROUPME_BOT_ID \notin PostedBotIds
  /\ op = "sendNotif" =>
       /\ OnlyProd
       /\ Addressees \cap TestAddresses = {}
       /\ scriptProperties.TEST_GROUPME_BOT_ID \notin PostedBotIds
  /\ (op = "performReminderSend_" /\ opts.mode \notin {"prod", "test"}) =>
       OnlyProd \/ OnlyTest

\* A test run that delivered on both channels, to the test set.
C23_Witness ==
  /\ op = "testSendNotif"
  /\ emailSheet = <<<<"Email">>, <<"p1@example.com">>, <<"p2@example.com">>>>
  /\ Addressees = {"t1@test.org", "t2@test.org"}
  /\ PostedBotIds = {"TESTBOT"}


\* ------------------------------------------------------------------------
\* C24: composeReminder_ called twice
\* ------------------------------------------------------------------------
\* A second call of composeReminder_ with the row and the time zone of the
\* call that returned before it.
SecondCall ==
  /\ op = "composeReminder_"
  /\ earlier.called
  /\ earlier.row = row
  /\ earlier.timeZone = timeZone

\* Both calls returned, with the same three strings.
SameStrings ==
  /\ ~earlier.reminder.threw
  /\ ~retReminder.threw
  /\ earlier.reminder.subject = retReminder.subject
  /\ earlier.reminder.emailBody = retReminder.emailBody
  /\ earlier.reminder.message = retReminder.message

\* Both calls ended the same way: the same exception, or the same strings.
SameOutcome ==
  \/ earlier.reminder.threw /\ retReminder.threw
  \/ SameStrings

RowIsNormal == ~row.isNull /\ ~isNoGroupRow_(row)

BaseDateText == trim(Chars(scriptProperties.TEST_BASE_DATE))

\* The calendar days the text writes in a supported format: m/d/yy and
\* m/d/yyyy (two-digit years in 2000-2099), or yyyy-mm-dd.
WrittenDays(s) ==
  LET m   == MatchMonthFirst(s)
      iso == MatchIso(s)
  IN  (IF m = <<>> THEN {}
       ELSE LET y == parseInt(m[3])
            IN  {[year  |-> IF y < 100 THEN 2000 + y ELSE y,
                  month |-> parseInt(m[1]), date |-> parseInt(m[2])]})
      \cup
      (IF iso = <<>> THEN {}
       ELSE {[year  |-> parseInt(iso[1]), month |-> parseInt(iso[2]),
              date  |-> parseInt(iso[3])]})

CalendarDays(s) ==
  {w \in WrittenDays(s) : ValidMonthDay(w.year, w.month, w.date)}

\* The start of the window of the run: the base date as getNextUpcomingRow_
\* parses it again.
Anchor == parseBaseDate_(opts.optBaseDate, now, InvalidDate)

\* C25: a run of testSendNotif starts its window on the calendar day
\* written in TEST_BASE_DATE when the property is set, and on the current
\* day when it is empty; parsing the parsed base date again gives the same
\* date.
C25_WindowStartsOnWrittenDay ==
  op = "testSendNotif" =>
    /\ scriptProperties.TEST_BASE_DATE = "" =>
         (opts.optBaseDate = Undefined /\ Anchor = Midday)
    /\ \A w \in CalendarDays(BaseDateText) :
         Anchor.valid /\ CivilOf(Anchor) = w
    /\ opts.optBaseDate.t = "date" => Anchor = opts.optBaseDate.date
    /\ parseBaseDate_(DateVal(Anchor), now, InvalidDate) = Anchor

\* The same, leaving out years below 100 written in the yyyy-mm-dd format.
C25_ExceptEarlyIsoYears ==
  op = "testSendNotif" =>
    /\ scriptProperties.TEST_BASE_DATE = "" =>
         (opts.optBaseDate = Undefined /\ Anchor = Midday)
    /\ \A w \in CalendarDays(BaseDateText) :
         (MatchIso(BaseDateText) # <<>> => w.year >= 100)
           => (Anchor.valid /\ CivilOf(Anchor) = w)
    /\ opts.optBaseDate.t = "date" => Anchor = opts.optBaseDate.date
    /\ parseBaseDate_(DateVal(Anchor), now, InvalidDate) = Anchor


\* ------------------------------------------------------------------------
\* C26: the order of the steps of a run
\* ------------------------------------------------------------------------
StepOrder == << "load", "select", "compose", "email", "post" >>

\* The mode, and the steps the opts of the run ask for.
RunMode == IF opts.given /\ opts.mode # "" THEN opts.mode ELSE "prod"

EmailWanted == opts.given /\ opts.sendEmail

PostWanted == opts.given /\ opts.sendGroupMe

Wanted(step) ==
  \/ step \in {"load", "select", "compose"}
  \/ step = "email" /\ EmailWanted
  \/ step = "post" /\ PostWanted

WantedSteps == SelectSeq(StepOrder, Wanted)

\* The step the run began last, and whether a step was completed.
LastStep == retRun.steps[Len(retRun.steps)]

Began(step) == \E i \in 1..Len(retRun.steps) : retRun.steps[i] = step

Completed(step) == Began(step) /\ ~(retRun.threw /\ LastStep = step)

\* The email the email step sends to the recipients the run loaded.
EmailOfRun ==
  sendEmailToRecipients_(retRun.reminder.subject, retRun.reminder.emailBody,
                         RecipientsOf(retRun.recipients)).mail

\* The property the run reads its recipients and its bot id from is missing.
RecipientsMissing ==
  IF RunMode = "prod" THEN scriptProperties.SHEET_ID = ""
  ELSE scriptProperties.TEST_EMAIL_RECIPIENTS = ""

BotIdMissing ==
  IF RunMode = "prod" THEN scriptProperties.GROUPME_BOT_ID = ""
  ELSE scriptProperties.TEST_GROUPME_BOT_ID = ""

\* C26: a run does its steps in the order load, select, compose, send
\* email, post; an error at a step ends the run there, with no later step
\* begun and every earlier step's effect in place. With SHEET_ID missing
\* nothing is delivered; with the recipients' property missing neither the
\* email nor the post happens; with the bot id missing the email has been
\* sent and nothing is posted.
C26_StepsInOrder ==
  IsRun =>
    /\ Len(retRun.steps) >= 1
    /\ retRun.steps = SubSeq(WantedSteps, 1, Len(retRun.steps))
    /\ ~retRun.threw => retRun.steps = WantedSteps
    /\ Completed("load") <=> retRun.reads # <<>> /\ retRun.reads[1] = "Schedule"
    /\ Completed("email") => retRun.mail = EmailOfRun
    /\ ~Completed("email") => retRun.mail = <<>>
    /\ ~Completed("post") => retRun.fetches = <<>>
    /\ scriptProperties.SHEET_ID = "" =>
         /\ retRun.threw /\ retRun.steps = <<"load">>
         /\ retRun.mail = <<>> /\ retRun.fetches = <<>>
    /\ (scriptProperties.SHEET_ID # "" /\ EmailWanted /\ RecipientsMissing) =>
         /\ retRun.threw /\ LastStep = "email"
         /\ retRun.mail = <<>> /\ retRun.fetches = <<>>
    /\ (/\ scriptProperties.SHEET_ID # ""
        /\ ~(EmailWanted /\ RecipientsMissing)
        /\ PostWanted /\ BotIdMissing) =>
         /\ retRun.threw /\ LastStep = "post"
         /\ retRun.fetches = <<>>
         /\ EmailWanted => (Completed("email") /\ retRun.mail = EmailOfRun)

\* sendNotif without GROUPME_BOT_ID: the email went out to the two
\* addresses of the Emails sheet before the post failed.
C26_Witness ==
  /\ op = "sendNotif"
  /\ scriptProperties.GROUPME_BOT_ID = ""
  /\ retRun.threw
  /\ retRun.steps = StepOrder
  /\ Len(retRun.mail) = 1
  /\ retRun.mail[1].to = "p1@example.com,p2@example.com"
  /\ retRun.fetches = <<>>


\* ------------------------------------------------------------------------
\* C27: one row per run
\* ------------------------------------------------------------------------
\* How many times the run began the step, and read the sheet.
TimesBegun(step) ==
  Cardinality({i \in 1..Len(retRun.steps) : retRun.steps[i] = step})

TimesRead(sheet) ==
  Cardinality({i \in 1..Len(retRun.reads) : retRun.reads[i] = sheet})

\* The selected row is null or one of the data rows of the sheet as read.
RowOfSchedule ==
  \/ retRun.nextRow.isNull
  \/ \E i \in 2..Len(retRun.scheduleData) :
       retRun.nextRow = RowOf(retRun.scheduleData[i])

\* C27: a run reads the Schedule sheet once and selects one row once; the
\* reminder composeReminder_ returns holds that row unchanged and the
\* results of the three builders on it; the subject and body of the email
\* sent and the text posted are those of that reminder.
C27_OneRowPerRun ==
  (IsRun /\ Completed("compose")) =>
    /\ TimesRead("Schedule") = 1
    /\ TimesBegun("load") = 1
    /\ TimesBegun("select") = 1
    /\ TimesBegun("compose") = 1
    /\ retRun.scheduleData = data.rows
    /\ RowOfSchedule
    /\ retRun.reminder.row = retRun.nextRow
    /\ retRun.reminder.subject = buildEmailSubject_(retRun.nextRow, timeZone)
    /\ retRun.reminder.emailBody =
         buildEmailBody_(retRun.nextRow, scriptProperties, timeZone).text
    /\ retRun.reminder.message =
         buildGroupMeMessage_(retRun.nextRow, scriptProperties, timeZone).text
    /\ \A i \in 1..Len(retRun.mail) :
         /\ retRun.mail[i].subject = retRun.reminder.subject
         /\ retRun.mail[i].htmlBody = retRun.reminder.emailBody
    /\ \A i \in 1..Len(retRun.fetches) :
         ParsePayload(retRun.fetches[i].payload).text
           = Implode(Stripped(Chars(retRun.reminder.message)))

\* A run that selected the second data row of its sheet and delivered its
\* reminder on both channels.
C27_Witness ==
  /\ op = "sendNotif"
  /\ Len(retRun.scheduleData) = 4
  /\ retRun.nextRow = RowOf(retRun.scheduleData[3])
  /\ Len(retRun.mail) = 1
  /\ Len(retRun.fetches) = 1
  /\ Contains(retRun.mail[1].subject, " on 12-20")
  /\ Contains(retRun.mail[1].htmlBody, "Bring")
  /\ Contains(ParsePayload(retRun.fetches[1].payload).text, "Bring")


\* ------------------------------------------------------------------------
\* C28: a run with no row in the window
\* ------------------------------------------------------------------------
GroupTitle == "Reminder for Mendez/Williams City Group"

\* The run found no row in its window.
NoUpcomingRow ==
  /\ IsRun
  /\ Completed("load")
  /\ Began("select")
  /\ retRun.nextRow.isNull

\* The addresses the run's mode reads, one at least being valid.
ConfiguredAddresses == IF RunMode = "prod" THEN SheetAddresses ELSE TestAddresses

HasValidRecipient ==
  /\ ~RecipientsMissing
  /\ \E a \in ConfiguredAddresses : WellFormedAddress(a)

MidnightResult == getNextUpcomingRow_Midnight(data, optDate, now, parsedGeneric)

\* The row is dated on the base calendar day or on the day 7 days later.
OnEdgeDay(i) ==
  /\ Today.valid
  /\ RowDate(i).valid
  /\ RowDate(i).day \in {Today.day, Today.day + 7}

\* The first row one variant returns and the other passes over.
FirstDifference ==
  IF retIdx = NoRow THEN MidnightResult.idx
  ELSE IF MidnightResult.idx = NoRow THEN retIdx
  ELSE MinOf({retIdx, MidnightResult.idx})

\* C29: the midnight-pinned and the midday-pinned getNextUpcomingRow_
\* return the same row for every table and base date where no row is dated
\* on the base calendar day or on the calendar day 7 days later; where they
\* differ, the row only one of them returns is dated on one of those two
\* days.
C29_VariantsAgreeOffEdgeDays ==
  op = "getNextUpcomingRow_" =>
    /\ MidnightResult.threw = threw
    /\ parseBaseDate_Midnight(optDate, now, parsedGeneric).valid = Today.valid
    /\ Today.valid =>
         parseBaseDate_Midnight(optDate, now, parsedGeneric).day = Today.day
    /\ (\A i \in DataRows : ~OnEdgeDay(i)) => MidnightResult.idx = retIdx
    /\ MidnightResult.idx # retIdx => OnEdgeDay(FirstDifference)

\* Three data rows, none on an edge day: both variants return the second.
C29_Witness ==
  /\ Selected
  /\ Len(data.rows) = 4
  /\ \A i \in DataRows : ~OnEdgeDay(i)
  /\ Today.valid
  /\ RowDate(1).valid /\ RowDate(1).day < Today.day
  /\ retIdx = 2
  /\ MidnightResult.idx = 2

\* The variants do differ on the edge days: a row dated at midnight of the
\* base day is returned by the earlier variant only.
C29_EdgeDayDifference ==
  /\ Selected
  /\ retIdx = NoRow
  /\ MidnightResult.idx = 1
  /\ OnEdgeDay(1)


\* ------------------------------------------------------------------------
\* C30: where the builders read SHEET_ID
\* ------------------------------------------------------------------------
Built == op = "builders"

SheetIdUnset == scriptProperties.SHEET_ID = ""

\* C30: for a null row and for a no-group row buildEmailBody_ and
\* buildGroupMeMessage_ return their text without throwing, also with
\* SHEET_ID unset, and the text is the same with SHEET_ID set; for any
\* other row they throw the missing-SHEET_ID error exactly when SHEET_ID is
\* unset; buildEmailSubject_ returns its text in every case.
C30_SheetIdReadOnNormalRows ==
  Built =>
    /\ ~NormalRow =>
         /\ ~retBody.threw /\ retBody.text # ""
         /\ ~retMessage.threw /\ retMessage.text # ""
         /\ \A p \in PropertySets :
              /\ buildEmailBody_(row, p, timeZone) = retBody
              /\ buildGroupMeMessage_(row, p, timeZone) = retMessage
    /\ NormalRow =>
         /\ retBody.threw <=> SheetIdUnset
         /\ retMessage.threw <=> SheetIdUnset
    /\ retSubject # ""
    /\ SheetIdUnset => Contains(retSubject, "Mendez/Williams City Group")

\* A no-group row built with SHEET_ID unset: both texts are returned.
C30_Witness ==
  /\ Built
  /\ SheetIdUnset
  /\ LocationIsNoGroup(row)
  /\ ~retBody.threw
  /\ ~retMessage.threw
  /\ Contains(retMessage.text, "NO GROUP for")

\* A normal row built with SHEET_ID unset: both builders throw, the subject
\* is returned.
C30_NormalRowThrows ==
  /\ Built
  /\ SheetIdUnset
  /\ NormalRow
  /\ retBody.threw
  /\ retMessage.threw
  /\ Contains(retSubject, "Reminder for")

====
